---------------------------- MODULE Spec2Model ----------------------------
(***************************************************************************)
(* Verification model of juce::Path (juce_Path.cpp): the segment store,    *)
(* the builder calls, the queries and the two serialisation formats; and   *)
(* of the navigation state of WebBrowserComponent                          *)
(* (juce_mac_WebBrowserComponent.mm).                                      *)
(*                                                                         *)
(* Coordinates are floats in the source.  The model keeps them as fixed    *)
(* point integers counting 1/Unit, so that 1.0 is Unit and the smallest    *)
(* step is 0.0005: fine enough for the 3-decimal text format to round.     *)
(* A path object is a record with the fields of the class; elements holds  *)
(* data.elements[0 .. numElements-1].                                      *)
(***************************************************************************)
EXTENDS Integers, Sequences, FiniteSets

VARIABLES
    path,     \* the Path object the calls are made on
    op,       \* the last call and its arguments (history)
    result,   \* <<value>> returned by the last query, <<>> after any other call
    xs, ys,   \* coordinates appended since construction or clear (history)
    stream,   \* bytes written by the last writePathToStream
    text,     \* characters returned by the last toString
    saved,    \* a second Path object: the copy taken when path was last
              \* written, printed or copied
    call,     \* the addPath call in progress: the position of its loop
    web       \* a WebBrowserComponent and what its last call asked of the
              \* internal browser

vars == <<path, op, result, xs, ys, stream, text, saved, call, web>>

\* What the builder calls and the queries leave alone.
serial == <<stream, text, saved, call, web>>

\* Decimal places of a coordinate in the text format: String (value, 3).
DecimalPlaces == 3

\* Model units per 1.0f: half a step of the last decimal place of the text
\* format, so that a coordinate can lie exactly between two printed values.
Unit == 2 * (10 ^ DecimalPlaces)

\* The five sentinel floats that tag the records of the store.
lineMarker == 100001 * Unit
moveMarker == 100002 * Unit
quadMarker == 100003 * Unit
cubicMarker == 100004 * Unit
closeSubPathMarker == 100005 * Unit

\* Largest number of store elements a builder step may reach.
MaxElements == 9

\* Largest number of store elements addRectangle may start from.
MaxRectBase == 3

-----------------------------------------------------------------------------
(* Helpers of the source: jmin / jmax. *)

jmin(a, b) == IF a < b THEN a ELSE b

jmax(a, b) == IF a < b THEN b ELSE a

SetMin(S) == CHOOSE m \in S : \A v \in S : m <= v

SetMax(S) == CHOOSE m \in S : \A v \in S : v <= m

-----------------------------------------------------------------------------
(* The path object. *)

\* Path::Path()
NewPath ==
    [elements |-> <<>>,
     pathXMin |-> 0, pathXMax |-> 0, pathYMin |-> 0, pathYMax |-> 0,
     useNonZeroWinding |-> TRUE]

numElements(p) == Len(p.elements)

\* Path::clear()
\* A clear that empties the store and keeps the box.
clear_keepBounds(p) == [p EXCEPT !.elements = <<>>]

clear(p) ==
    [p EXCEPT !.elements = <<>>,
              !.pathXMin = 0, !.pathYMin = 0, !.pathYMax = 0, !.pathXMax = 0]

\* Path::setUsingNonZeroWinding
setUsingNonZeroWinding(p, isNonZero) ==
    [p EXCEPT !.useNonZeroWinding = isNonZero]

\* A seeded-by-zero variant: folds the first point into the (0,0,0,0) box.
startNewSubPath_alwaysFold(p, x, y) ==
    [p EXCEPT !.pathXMin = jmin(@, x), !.pathXMax = jmax(@, x),
              !.pathYMin = jmin(@, y), !.pathYMax = jmax(@, y),
              !.elements = @ \o <<moveMarker, x, y>>]

\* Path::startNewSubPath
startNewSubPath(p, x, y) ==
    IF numElements(p) = 0
    THEN [p EXCEPT !.pathXMin = x, !.pathXMax = x,
                   !.pathYMin = y, !.pathYMax = y,
                   !.elements = @ \o <<moveMarker, x, y>>]
    ELSE [p EXCEPT !.pathXMin = jmin(@, x), !.pathXMax = jmax(@, x),
                   !.pathYMin = jmin(@, y), !.pathYMax = jmax(@, y),
                   !.elements = @ \o <<moveMarker, x, y>>]

\* A variant that appends the record without opening a subpath first.
lineTo_noImplicitMove(p, x, y) ==
    [p EXCEPT !.elements = @ \o <<lineMarker, x, y>>,
              !.pathXMin = jmin(@, x), !.pathXMax = jmax(@, x),
              !.pathYMin = jmin(@, y), !.pathYMax = jmax(@, y)]

\* Path::lineTo
lineTo(p, x, y) ==
    LET q == IF numElements(p) = 0 THEN startNewSubPath(p, 0, 0) ELSE p
    IN  [q EXCEPT !.elements = @ \o <<lineMarker, x, y>>,
                  !.pathXMin = jmin(@, x), !.pathXMax = jmax(@, x),
                  !.pathYMin = jmin(@, y), !.pathYMax = jmax(@, y)]

\* Path::quadraticTo
quadraticTo(p, x1, y1, x2, y2) ==
    LET q == IF numElements(p) = 0 THEN startNewSubPath(p, 0, 0) ELSE p
    IN  [q EXCEPT !.elements = @ \o <<quadMarker, x1, y1, x2, y2>>,
                  !.pathXMin = jmin(jmin(@, x1), x2),
                  !.pathXMax = jmax(jmax(@, x1), x2),
                  !.pathYMin = jmin(jmin(@, y1), y2),
                  !.pathYMax = jmax(jmax(@, y1), y2)]

\* Path::cubicTo
cubicTo(p, x1, y1, x2, y2, x3, y3) ==
    LET q == IF numElements(p) = 0 THEN startNewSubPath(p, 0, 0) ELSE p
    IN  [q EXCEPT !.elements = @ \o <<cubicMarker, x1, y1, x2, y2, x3, y3>>,
                  !.pathXMin = jmin(jmin(jmin(@, x1), x2), x3),
                  !.pathXMax = jmax(jmax(jmax(@, x1), x2), x3),
                  !.pathYMin = jmin(jmin(jmin(@, y1), y2), y3),
                  !.pathYMax = jmax(jmax(jmax(@, y1), y2), y3)]

\* A variant without the test of the last element.
closeSubPath_unguarded(p) ==
    IF numElements(p) > 0
    THEN [p EXCEPT !.elements = Append(@, closeSubPathMarker)]
    ELSE p

\* Path::closeSubPath.  The test reads the last float of the store, whatever
\* it is: a marker or a coordinate.
closeSubPath(p) ==
    IF numElements(p) > 0 /\ p.elements[numElements(p)] # closeSubPathMarker
    THEN [p EXCEPT !.elements = Append(@, closeSubPathMarker)]
    ELSE p

\* A variant that forgets to order the edges of a negative size.
addRectangle_noSwap(p, x, y, w, h) ==
    LET x1 == x
        x2 == x + w
        y1 == y
        y2 == y + h
        e == numElements(p) = 0
    IN  [p EXCEPT !.pathXMin = IF e THEN x1 ELSE jmin(@, x1),
                  !.pathXMax = IF e THEN x2 ELSE jmax(@, x2),
                  !.pathYMin = IF e THEN y1 ELSE jmin(@, y1),
                  !.pathYMax = IF e THEN y2 ELSE jmax(@, y2),
                  !.elements = @ \o <<moveMarker, x1, y2, lineMarker, x1, y1,
                                      lineMarker, x2, y1, lineMarker, x2, y2,
                                      closeSubPathMarker>>]

\* Path::addRectangle (float x, float y, float w, float h)
addRectangle(p, x, y, w, h) ==
    LET x1 == IF w < 0 THEN x + w ELSE x
        x2 == IF w < 0 THEN x ELSE x + w
        y1 == IF h < 0 THEN y + h ELSE y
        y2 == IF h < 0 THEN y ELSE y + h
        e == numElements(p) = 0
    IN  [p EXCEPT !.pathXMin = IF e THEN x1 ELSE jmin(@, x1),
                  !.pathXMax = IF e THEN x2 ELSE jmax(@, x2),
                  !.pathYMin = IF e THEN y1 ELSE jmin(@, y1),
                  !.pathYMax = IF e THEN y2 ELSE jmax(@, y2),
                  !.elements = @ \o <<moveMarker, x1, y2, lineMarker, x1, y1,
                                      lineMarker, x2, y1, lineMarker, x2, y2,
                                      closeSubPathMarker>>]

-----------------------------------------------------------------------------
(* Reading the store as records, the way Path::Iterator::next walks it.    *)
(* A record is <<marker, coordinates...>>.                                 *)

numCoordsOf(type) ==
    IF type = moveMarker \/ type = lineMarker THEN 2
    ELSE IF type = quadMarker THEN 4
    ELSE IF type = cubicMarker THEN 6
    ELSE 0

RECURSIVE RecordsFrom(_, _)
RecordsFrom(e, index) ==
    IF index > Len(e) THEN <<>>
    ELSE LET last == jmin(index + numCoordsOf(e[index]), Len(e))
         IN  <<SubSeq(e, index, last)>> \o RecordsFrom(e, last + 1)

Records(e) == RecordsFrom(e, 1)

RecordTypes(e) == [k \in 1..Len(Records(e)) |-> Records(e)[k][1]]

IsSegment(type) == type = lineMarker \/ type = quadMarker \/ type = cubicMarker

\* A variant that does not step over the coordinates of a move.
RECURSIVE isEmptyFrom_noSkip(_, _)
isEmptyFrom_noSkip(p, i) ==
    IF i > numElements(p) THEN TRUE
    ELSE IF IsSegment(p.elements[i]) THEN FALSE
    ELSE isEmptyFrom_noSkip(p, i + 1)

\* The loop of Path::isEmpty, i being the (1-based) index of the next read.
RECURSIVE isEmptyFrom(_, _)
isEmptyFrom(p, i) ==
    IF i > numElements(p) THEN TRUE
    ELSE LET type == p.elements[i]
         IN  IF type = moveMarker THEN isEmptyFrom(p, i + 3)
             ELSE IF IsSegment(type) THEN FALSE
             ELSE isEmptyFrom(p, i + 1)

\* Path::isEmpty
isEmpty(p) == isEmptyFrom(p, 1)

-----------------------------------------------------------------------------
(* The binary format: Path::writePathToStream and Path::loadPathFromStream. *)
(* A stream is a sequence of bytes.  OutputStream::writeFloat and           *)
(* InputStream::readFloat move the four bytes of a float; the model moves   *)
(* the four little-endian bytes of the value's 32-bit two's complement,     *)
(* which like the float layout is one-to-one between values and byte groups.*)

\* Character codes of the record bytes of the format.
Ascii == [b |-> 98, c |-> 99, e |-> 101, l |-> 108, m |-> 109,
          n |-> 110, q |-> 113, z |-> 122]

\* OutputStream::writeFloat
writeFloat(v) ==
    LET u == IF v < 0 THEN v + 2147483647 + 1 ELSE v    \* low 31 bits
        top == IF v < 0 THEN 128 ELSE 0                  \* the sign bit
    IN  <<u % 256, (u \div 256) % 256, (u \div 65536) % 256,
          (u \div 16777216) + top>>

\* InputStream::readFloat from the four bytes at pos (0 when fewer are left).
readFloat(source, pos) ==
    IF pos + 3 > Len(source) THEN 0
    ELSE LET b4 == source[pos + 3]
             u == source[pos] + 256 * source[pos + 1] + 65536 * source[pos + 2]
                  + 16777216 * (b4 % 128)
         IN  IF b4 >= 128 THEN u - 2147483647 - 1 ELSE u

RECURSIVE writeFloats(_, _, _)
writeFloats(e, i, n) ==
    IF n = 0 THEN <<>> ELSE writeFloat(e[i]) \o writeFloats(e, i + 1, n - 1)

\* The loop of Path::writePathToStream, i being the index of the next read.
RECURSIVE writeRecords(_, _)
writeRecords(e, i) ==
    IF i > Len(e) THEN <<>>
    ELSE LET type == e[i]
         IN  IF type = moveMarker
             THEN <<Ascii.m>> \o writeFloats(e, i + 1, 2) \o writeRecords(e, i + 3)
             ELSE IF type = lineMarker
             THEN <<Ascii.l>> \o writeFloats(e, i + 1, 2) \o writeRecords(e, i + 3)
             ELSE IF type = quadMarker
             THEN <<Ascii.q>> \o writeFloats(e, i + 1, 4) \o writeRecords(e, i + 5)
             ELSE IF type = cubicMarker
             THEN <<Ascii.b>> \o writeFloats(e, i + 1, 6) \o writeRecords(e, i + 7)
             ELSE IF type = closeSubPathMarker
             THEN <<Ascii.c>> \o writeRecords(e, i + 1)
             ELSE writeRecords(e, i + 1)

\* Path::writePathToStream
writePathToStream(p) ==
    <<IF p.useNonZeroWinding THEN Ascii.n ELSE Ascii.z>>
    \o writeRecords(p.elements, 1)
    \o <<Ascii.e>>

\* The loop of Path::loadPathFromStream: the path so far and the position
\* of the next byte of the source; the result is the path and the position
\* the source is left at.
RECURSIVE loadFrom(_, _, _)
loadFrom(p, source, pos) ==
    IF pos > Len(source) THEN [path |-> p, pos |-> pos]
    ELSE LET byte == source[pos]
             f(k) == readFloat(source, pos + 1 + 4 * (k - 1))
         IN  IF byte = Ascii.m
             THEN loadFrom(startNewSubPath(p, f(1), f(2)), source, pos + 9)
             ELSE IF byte = Ascii.l
             THEN loadFrom(lineTo(p, f(1), f(2)), source, pos + 9)
             ELSE IF byte = Ascii.q
             THEN loadFrom(quadraticTo(p, f(1), f(2), f(3), f(4)), source, pos + 17)
             ELSE IF byte = Ascii.b
             THEN loadFrom(cubicTo(p, f(1), f(2), f(3), f(4), f(5), f(6)),
                           source, pos + 25)
             ELSE IF byte = Ascii.c
             THEN loadFrom(closeSubPath(p), source, pos + 1)
             ELSE IF byte = Ascii.n
             THEN loadFrom(setUsingNonZeroWinding(p, TRUE), source, pos + 1)
             ELSE IF byte = Ascii.z
             THEN loadFrom(setUsingNonZeroWinding(p, FALSE), source, pos + 1)
             ELSE IF byte = Ascii.e
             THEN [path |-> p, pos |-> pos + 1]
             ELSE loadFrom(p, source, pos + 1)

\* Path::loadPathFromStream
loadPathFromStream(p, source) == loadFrom(p, source, 1).path

-----------------------------------------------------------------------------
(* The text format: Path::toString and Path::restoreFromString.  A string  *)
(* is a sequence of one-character strings.                                 *)

DigitChars == <<"0", "1", "2", "3", "4", "5", "6", "7", "8", "9">>

isWhitespace(ch) == ch = " "

\* Model units per step of the last printed decimal place.
UnitsPerStep == Unit \div (10 ^ DecimalPlaces)

\* The digits of String (value, 3): at least one digit before the point
\* and DecimalPlaces digits after it; v counts steps of the last place.
RECURSIVE digitsOf(_, _)
digitsOf(v, numDecPlaces) ==
    IF numDecPlaces >= 0 \/ v > 0
    THEN digitsOf(v \div 10, numDecPlaces - 1)
         \o (IF numDecPlaces = 0 THEN <<DigitChars[(v % 10) + 1], ".">>
                                 ELSE <<DigitChars[(v % 10) + 1]>>)
    ELSE <<>>

\* String (float value, int numberOfDecimalPlaces) with 3 places: the
\* absolute value rounded half up to the third decimal, a leading '-' for a
\* negative value.
floatToString(value) ==
    LET abs == IF value < 0 THEN -value ELSE value
        v == (abs + UnitsPerStep \div 2) \div UnitsPerStep
    IN  (IF value < 0 THEN <<"-">> ELSE <<>>) \o digitsOf(v, DecimalPlaces)

\* while (coord.endsWithChar ('0') && coord != "0") coord = coord.dropLastCharacters (1)
RECURSIVE dropTrailingZeros(_)
dropTrailingZeros(coord) ==
    IF Len(coord) > 0 /\ coord[Len(coord)] = "0" /\ coord # <<"0">>
    THEN dropTrailingZeros(SubSeq(coord, 1, Len(coord) - 1))
    ELSE coord

\* The text of one coordinate in Path::toString.
coordToString(value) ==
    LET coord == dropTrailingZeros(floatToString(value))
    IN  IF Len(coord) > 0 /\ coord[Len(coord)] = "."
        THEN SubSeq(coord, 1, Len(coord) - 1)
        ELSE coord

\* s << ' ' when something was written before, then s << piece.
spaced(s, piece) == IF Len(s) # 0 THEN s \o <<" ">> \o piece ELSE piece

\* The inner loop of Path::toString: up to numCoords coordinates from i on.
RECURSIVE writeCoords(_, _, _, _)
writeCoords(s, e, i, numCoords) ==
    IF numCoords > 0 /\ i <= Len(e)
    THEN writeCoords(spaced(s, coordToString(e[i])), e, i + 1, numCoords - 1)
    ELSE [s |-> s, i |-> i]

\* The outer loop of Path::toString.
RECURSIVE toStringFrom(_, _, _, _)
toStringFrom(s, e, i, lastMarker) ==
    IF i > Len(e) THEN s
    ELSE LET marker == e[i]
             markerChar == IF marker = moveMarker THEN "m"
                           ELSE IF marker = lineMarker THEN "l"
                           ELSE IF marker = quadMarker THEN "q"
                           ELSE IF marker = cubicMarker THEN "c"
                           ELSE "z"
             s1 == IF marker # lastMarker THEN spaced(s, <<markerChar>>) ELSE s
             w == writeCoords(s1, e, i + 1, numCoordsOf(marker))
         IN  toStringFrom(w.s, e, w.i, marker)

\* Path::toString
toString(p) ==
    toStringFrom(IF p.useNonZeroWinding THEN <<>> ELSE <<"a">>,
                 p.elements, 1, 0)

\* PathHelpers::nextToken: the token starting at or after t and the
\* position behind the whitespace that follows it.
RECURSIVE skipWhitespace(_, _)
skipWhitespace(str, t) ==
    IF t <= Len(str) /\ isWhitespace(str[t]) THEN skipWhitespace(str, t + 1) ELSE t

RECURSIVE skipToken(_, _)
skipToken(str, t) ==
    IF t <= Len(str) /\ ~isWhitespace(str[t]) THEN skipToken(str, t + 1) ELSE t

nextToken(str, t) ==
    LET start == skipWhitespace(str, t)
        end == skipToken(str, start)
    IN  [token |-> SubSeq(str, start, end - 1), t |-> skipWhitespace(str, end)]

DigitValue(ch) == CHOOSE d \in 0..9 : DigitChars[d + 1] = ch

IsDigit(ch) == \E d \in 0..9 : DigitChars[d + 1] = ch

\* Digits of token from i on, read as a whole number.
RECURSIVE readWhole(_, _, _)
readWhole(token, i, acc) ==
    IF i <= Len(token) /\ IsDigit(token[i])
    THEN readWhole(token, i + 1, acc * 10 + DigitValue(token[i]))
    ELSE [value |-> acc, i |-> i]

\* Digits of token from i on, read as decimals; scale is the weight, in
\* model units times ten, of the digit at i.
RECURSIVE readDecimals(_, _, _)
readDecimals(token, i, scale) ==
    IF i <= Len(token) /\ IsDigit(token[i])
    THEN (DigitValue(token[i]) * scale) \div 10 + readDecimals(token, i + 1, scale \div 10)
    ELSE 0

\* String::getFloatValue: an optional '-', digits, an optional '.' and
\* decimals; 0 for a token that starts with none of these.
getFloatValue(token) ==
    LET neg == Len(token) > 0 /\ token[1] = "-"
        w == readWhole(token, IF neg THEN 2 ELSE 1, 0)
        frac == IF w.i <= Len(token) /\ token[w.i] = "."
                THEN readDecimals(token, w.i + 1, Unit) ELSE 0
        abs == w.value * Unit + frac
    IN  IF neg THEN -abs ELSE abs

\* for (i = startNum; i < numValues; ++i) values[i] = nextToken (t).getFloatValue()
RECURSIVE readValues(_, _, _, _)
readValues(str, t, values, numValues) ==
    IF Len(values) < numValues
    THEN LET n == nextToken(str, t)
         IN  readValues(str, n.t, Append(values, getFloatValue(n.token)), numValues)
    ELSE [values |-> values, t |-> t]

\* The loop of Path::restoreFromString.
RECURSIVE restoreFrom(_, _, _, _, _)
restoreFrom(p, str, t, marker, numValues) ==
    IF t > Len(str) THEN p
    ELSE LET n == nextToken(str, t)
             firstChar == IF Len(n.token) > 0 THEN n.token[1] ELSE ""
         IN  IF firstChar = "a"
             THEN restoreFrom(setUsingNonZeroWinding(p, FALSE), str, n.t,
                              marker, numValues)
             ELSE
             LET isLetter == firstChar \in {"m", "l", "q", "c", "z"}
                 marker1 == IF isLetter THEN firstChar ELSE marker
                 numValues1 == IF firstChar \in {"m", "l"} THEN 2
                               ELSE IF firstChar = "q" THEN 4
                               ELSE IF firstChar = "c" THEN 6
                               ELSE IF firstChar = "z" THEN 0
                               ELSE numValues
                 first == IF isLetter THEN <<>> ELSE <<getFloatValue(n.token)>>
                 r == readValues(str, n.t, first, numValues1)
                 v == r.values
                 p1 == IF marker1 = "m" THEN startNewSubPath(p, v[1], v[2])
                       ELSE IF marker1 = "l" THEN lineTo(p, v[1], v[2])
                       ELSE IF marker1 = "q" THEN quadraticTo(p, v[1], v[2], v[3], v[4])
                       ELSE IF marker1 = "c"
                       THEN cubicTo(p, v[1], v[2], v[3], v[4], v[5], v[6])
                       ELSE closeSubPath(p)
             IN  restoreFrom(p1, str, r.t, marker1, numValues1)

\* Path::restoreFromString
restoreFromString(p, stringVersion) ==
    restoreFrom(setUsingNonZeroWinding(clear(p), TRUE), stringVersion, 1, "m", 2)

-----------------------------------------------------------------------------
(* Point containment: Path::contains over the edges PathFlatteningIterator *)
(* produces.  An edge is <<x1, y1, x2, y2>>.                               *)

\* PathFlatteningIterator: the straight edges of the path in record order.
\* A line gives the edge from the current point to its end point; a close
\* gives the edge back to the start of the subpath unless the current point
\* is already there.  A curve is reduced here to the chord to its end point.
RECURSIVE flattenFrom(_, _, _, _)
flattenFrom(recs, k, cur, start) ==
    IF k > Len(recs) THEN <<>>
    ELSE LET rec == recs[k]
             type == rec[1]
             end == <<rec[Len(rec) - 1], rec[Len(rec)]>>
         IN  IF type = moveMarker
             THEN flattenFrom(recs, k + 1, end, end)
             ELSE IF type = closeSubPathMarker
             THEN (IF cur # start THEN <<cur \o start>> ELSE <<>>)
                  \o flattenFrom(recs, k + 1, start, start)
             ELSE <<cur \o end>> \o flattenFrom(recs, k + 1, end, start)

flattenedEdges(p) == flattenFrom(Records(p.elements), 1, <<0, 0>>, <<0, 0>>)

\* A variant that takes both ends of an edge as on the scanline.
crossesScanline_closed(edge, y) ==
    \/ edge[2] <= y /\ edge[4] >= y /\ edge[2] # edge[4]
    \/ edge[4] <= y /\ edge[2] >= y /\ edge[2] # edge[4]

\* (i.y1 <= y && i.y2 > y) || (i.y2 <= y && i.y1 > y)
crossesScanline(edge, y) ==
    \/ edge[2] <= y /\ edge[4] > y
    \/ edge[4] <= y /\ edge[2] > y

\* intersectX <= x for intersectX = x1 + (x2 - x1) * (y - y1) / (y2 - y1),
\* compared exactly (the source rounds the quotient to a float); only used
\* on an edge that crosses the scanline, so y2 # y1.
intersectXAtOrLeftOf(edge, x, y) ==
    LET num == (edge[3] - edge[1]) * (y - edge[2])
        den == edge[4] - edge[2]
    IN  IF den > 0 THEN num <= (x - edge[1]) * den
                   ELSE num >= (x - edge[1]) * den

\* The loop of Path::contains over the edges from k on.
RECURSIVE countCrossings(_, _, _, _, _, _)
countCrossings(edges, k, x, y, positiveCrossings, negativeCrossings) ==
    IF k > Len(edges)
    THEN [positiveCrossings |-> positiveCrossings,
          negativeCrossings |-> negativeCrossings]
    ELSE LET edge == edges[k]
             counted == crossesScanline(edge, y) /\ intersectXAtOrLeftOf(edge, x, y)
             up == edge[2] < edge[4]
         IN  countCrossings(edges, k + 1, x, y,
                            positiveCrossings + (IF counted /\ up THEN 1 ELSE 0),
                            negativeCrossings + (IF counted /\ ~up THEN 1 ELSE 0))

\* A variant that always applies the even-odd rule.
contains_evenOddOnly(p, x, y) ==
    IF x <= p.pathXMin \/ x >= p.pathXMax \/ y <= p.pathYMin \/ y >= p.pathYMax
    THEN FALSE
    ELSE LET c == countCrossings(flattenedEdges(p), 1, x, y, 0, 0)
         IN  (c.negativeCrossings + c.positiveCrossings) % 2 # 0

\* Path::contains (x, y, tolerance)
contains(p, x, y) ==
    IF x <= p.pathXMin \/ x >= p.pathXMax \/ y <= p.pathYMin \/ y >= p.pathYMax
    THEN FALSE
    ELSE LET c == countCrossings(flattenedEdges(p), 1, x, y, 0, 0)
         IN  IF p.useNonZeroWinding
             THEN c.negativeCrossings # c.positiveCrossings
             ELSE (c.negativeCrossings + c.positiveCrossings) % 2 # 0

-----------------------------------------------------------------------------
(* Shape constructors and addPath.  The vertices of an arc are sines and   *)
(* cosines of the angles in the source; here the points an arc visits are  *)
(* an input, so every sequence of builder calls the source can make for    *)
(* some angles and radii is made for some input.                           *)

\* Path::Path (const Path&)
copyOf(other) == other

\* Path::addTriangle
addTriangle(p, x1, y1, x2, y2, x3, y3) ==
    closeSubPath(lineTo(lineTo(startNewSubPath(p, x1, y1), x2, y2), x3, y3))

\* Path::addArc / Path::addCentredArc with startAsNewSubPath false: one
\* lineTo per vertex of the arc, the last being the end of the arc; no call
\* at all (arc = <<>>) when a radius is not positive.
RECURSIVE addArc(_, _)
addArc(p, arc) ==
    IF arc = <<>> THEN p
    ELSE addArc(lineTo(p, arc[1][1], arc[1][2]), Tail(arc))

\* Path::addPieSegment.  start: the first point of the outer arc; arc: its
\* vertices; fullCircle: fabs (fromRadians - toRadians) > float_Pi * 1.999f;
\* hasInner: innerCircleProportionalSize > 0; innerStart, innerArc: the same
\* for the inner arc; centre: the centre of the ellipse.
addPieSegment(p, start, arc, fullCircle, hasInner, innerStart, innerArc, centre) ==
    LET p1 == addArc(startNewSubPath(p, start[1], start[2]), arc)
        p2 == IF fullCircle
              THEN LET c == closeSubPath(p1)
                   IN  IF hasInner
                       THEN addArc(startNewSubPath(c, innerStart[1], innerStart[2]),
                                   innerArc)
                       ELSE c
              ELSE IF hasInner THEN addArc(p1, innerArc)
                   ELSE lineTo(p1, centre[1], centre[2])
    IN  closeSubPath(p2)

\* The loop of Path::addPath (const Path& other), other not being the path
\* itself: p is the receiver so far, e the elements of other, i the index
\* of the next read.
RECURSIVE addPathFrom(_, _, _)
addPathFrom(p, e, i) ==
    IF i > Len(e) THEN p
    ELSE LET type == e[i]
         IN  IF type = moveMarker
             THEN addPathFrom(startNewSubPath(p, e[i + 1], e[i + 2]), e, i + 3)
             ELSE IF type = lineMarker
             THEN addPathFrom(lineTo(p, e[i + 1], e[i + 2]), e, i + 3)
             ELSE IF type = quadMarker
             THEN addPathFrom(quadraticTo(p, e[i + 1], e[i + 2], e[i + 3], e[i + 4]),
                              e, i + 5)
             ELSE IF type = cubicMarker
             THEN addPathFrom(cubicTo(p, e[i + 1], e[i + 2], e[i + 3], e[i + 4],
                                      e[i + 5], e[i + 6]), e, i + 7)
             ELSE IF type = closeSubPathMarker
             THEN addPathFrom(closeSubPath(p), e, i + 1)
             ELSE addPathFrom(p, e, i + 1)

\* Path::addPath (const Path& other)
addPath(p, other) == addPathFrom(p, other.elements, 1)

-----------------------------------------------------------------------------
(* getCurrentPosition.  Indices are those of the source (the first element *)
(* is at 0).  The index i is a size_t: numElements - 1 on a store without  *)
(* elements wraps to the largest value, which addresses the float before   *)
(* the array, and i >= 0 is always true.  Here that value is written -1.   *)
(* What a read outside [0, numElements) yields is not defined by the       *)
(* language: before holds the floats that happen to lie before the array   *)
(* (before[k] at index -k) and beyond the float that any other read yields.*)

\* data.elements [i]
elementAt(e, before, beyond, i) ==
    IF i >= 0 /\ i < Len(e) THEN e[i + 1]
    ELSE IF i < 0 /\ -i <= Len(before) THEN before[-i]
    ELSE beyond

\* The while loop: the index at which it breaks, before i += 2.  A scan
\* that leaves the modelled floats stops there.
RECURSIVE scanBackForMove(_, _, _, _)
scanBackForMove(e, before, beyond, i) ==
    IF i < -Len(before) THEN i
    ELSE IF elementAt(e, before, beyond, i) = moveMarker THEN i
    ELSE scanBackForMove(e, before, beyond, i - 1)

\* Path::getCurrentPosition: the point returned and whether an element
\* outside [0, numElements) was read.
getCurrentPosition(p, before, beyond) ==
    LET e == p.elements
        n == Len(e)
        i0 == n - 1
        sawClose == i0 # 0 /\ elementAt(e, before, beyond, i0) = closeSubPathMarker
        j == IF sawClose THEN scanBackForMove(e, before, beyond, i0) ELSE i0
        i == IF sawClose THEN j + 2 ELSE i0
        Inside(k) == k >= 0 /\ k < n
    IN  [ point |-> IF i # 0
                    THEN << elementAt(e, before, beyond, i - 1),
                            elementAt(e, before, beyond, i) >>
                    ELSE <<0, 0>>,
          readOutside |->
              \/ i0 # 0 /\ ~Inside(i0)
              \/ sawClose /\ ~Inside(j)
              \/ i # 0 /\ (~Inside(i - 1) \/ ~Inside(i)) ]

-----------------------------------------------------------------------------
(* Transforms.  A float that is the result of a division is kept exactly,  *)
(* as a fraction <<n, d>> in lowest terms with d > 0; d = 0 is what a      *)
(* division by zero leaves: <<1, 0>> and <<-1, 0>> the infinities, <<0, 0>>*)
(* not-a-number.                                                           *)

Abs(n) == IF n < 0 THEN -n ELSE n

Sign(n) == IF n < 0 THEN -1 ELSE IF n > 0 THEN 1 ELSE 0

RECURSIVE GCD(_, _)
GCD(a, b) == IF b = 0 THEN a ELSE GCD(b, a % b)

Rat(n, d) ==
    IF d = 0 THEN <<Sign(n), 0>>
    ELSE LET g == GCD(Abs(n), Abs(d))
         IN  <<(Sign(d) * n) \div g, Abs(d) \div g>>

Num(n) == <<n, 1>>

IsFinite(a) == a[2] # 0

NaN == <<0, 0>>

RNeg(a) == <<-a[1], a[2]>>

RMul(a, b) ==
    IF IsFinite(a) /\ IsFinite(b)
    THEN LET g1 == GCD(Abs(a[1]), b[2])
             g2 == GCD(Abs(b[1]), a[2])
         IN  Rat((a[1] \div g1) * (b[1] \div g2), (a[2] \div g2) * (b[2] \div g1))
    ELSE IF a = NaN \/ b = NaN \/ a[1] = 0 \/ b[1] = 0 THEN NaN
    ELSE <<Sign(a[1]) * Sign(b[1]), 0>>

RDiv(a, b) ==
    IF IsFinite(a) /\ IsFinite(b)
    THEN IF b[1] = 0 THEN <<Sign(a[1]), 0>> ELSE RMul(a, Rat(b[2], b[1]))
    ELSE IF a = NaN \/ b = NaN \/ (~IsFinite(a) /\ ~IsFinite(b)) THEN NaN
    ELSE IF IsFinite(a) THEN Num(0)
    ELSE <<a[1] * (IF b[1] < 0 THEN -1 ELSE 1), 0>>

RAdd(a, b) ==
    IF IsFinite(a) /\ IsFinite(b)
    THEN Rat(a[1] * b[2] + b[1] * a[2], a[2] * b[2])
    ELSE IF a = NaN \/ b = NaN \/ (~IsFinite(a) /\ ~IsFinite(b) /\ a # b) THEN NaN
    ELSE IF IsFinite(a) THEN b ELSE a

RSub(a, b) == RAdd(a, RNeg(b))

\* a > b of two floats (false when either is not-a-number).
RGreater(a, b) ==
    IF IsFinite(a) /\ IsFinite(b) THEN a[1] * b[2] > b[1] * a[2]
    ELSE a # NaN /\ b # NaN /\ a # b /\ (a = <<1, 0>> \/ b = <<-1, 0>>)

Half == Rat(1, 2)

\* AffineTransform: x' = mat00 x + mat01 y + mat02, y' = mat10 x + mat11 y + mat12
identity ==
    [mat00 |-> Num(1), mat01 |-> Num(0), mat02 |-> Num(0),
     mat10 |-> Num(0), mat11 |-> Num(1), mat12 |-> Num(0)]

translation(dx, dy) == [identity EXCEPT !.mat02 = dx, !.mat12 = dy]

scaled(t, sx, sy) ==
    [mat00 |-> RMul(t.mat00, sx), mat01 |-> RMul(t.mat01, sx),
     mat02 |-> RMul(t.mat02, sx),
     mat10 |-> RMul(t.mat10, sy), mat11 |-> RMul(t.mat11, sy),
     mat12 |-> RMul(t.mat12, sy)]

translated(t, dx, dy) ==
    [t EXCEPT !.mat02 = RAdd(@, dx), !.mat12 = RAdd(@, dy)]

\* AffineTransform::transformPoint
transformPoint(t, x, y) ==
    << RAdd(RAdd(RMul(t.mat00, x), RMul(t.mat01, y)), t.mat02),
       RAdd(RAdd(RMul(t.mat10, x), RMul(t.mat11, y)), t.mat12) >>

\* Path::getBounds
getBounds(p) ==
    [x |-> p.pathXMin, y |-> p.pathYMin,
     w |-> p.pathXMax - p.pathXMin, h |-> p.pathYMax - p.pathYMin]

\* Rectangle::isEmpty
rectIsEmpty(r) == r.w <= 0 \/ r.h <= 0

\* Justification::testFlags: a justification is the set of its flags.
testFlags(justification, flag) == flag \in justification

\* The limiting axis: the height limits when srcRatio > h / w.
heightLimits_flipped(srcRatio, w, h) == RGreater(RDiv(Num(h), Num(w)), srcRatio)

heightLimits(srcRatio, w, h) == RGreater(srcRatio, RDiv(Num(h), Num(w)))

\* Path::getTransformToScaleToFit
getTransformToScaleToFit(p, x, y, w, h, preserveProportions, justification) ==
    LET bounds == getBounds(p)
        bw == Num(bounds.w)
        bh == Num(bounds.h)
    IN  IF preserveProportions
        THEN IF w <= 0 \/ h <= 0 \/ rectIsEmpty(bounds) THEN identity
             ELSE LET srcRatio == RDiv(bh, bw)
                      tall == heightLimits(srcRatio, w, h)
                      newW == IF tall THEN RDiv(Num(h), srcRatio) ELSE Num(w)
                      newH == IF tall THEN Num(h) ELSE RMul(Num(w), srcRatio)
                      newXCentre ==
                          IF testFlags(justification, "left")
                          THEN RAdd(Num(x), RMul(newW, Half))
                          ELSE IF testFlags(justification, "right")
                          THEN RAdd(Num(x), RSub(Num(w), RMul(newW, Half)))
                          ELSE RAdd(Num(x), RMul(Num(w), Half))
                      newYCentre ==
                          IF testFlags(justification, "top")
                          THEN RAdd(Num(y), RMul(newH, Half))
                          ELSE IF testFlags(justification, "bottom")
                          THEN RAdd(Num(y), RSub(Num(h), RMul(newH, Half)))
                          ELSE RAdd(Num(y), RMul(Num(h), Half))
                  IN  translated(
                          scaled(translation(RSub(RMul(bw, RNeg(Half)), Num(bounds.x)),
                                             RSub(RMul(bh, RNeg(Half)), Num(bounds.y))),
                                 RDiv(newW, bw), RDiv(newH, bh)),
                          newXCentre, newYCentre)
        ELSE translated(
                 scaled(translation(Num(-bounds.x), Num(-bounds.y)),
                        RDiv(Num(w), bw), RDiv(Num(h), bh)),
                 Num(x), Num(y))

-----------------------------------------------------------------------------
(* createPathWithRoundedCorners.  Indices are those of the source (first   *)
(* element at 0).  Lengths are whole model units: juce_hypot is exact for  *)
(* the edges used here and rounded down otherwise.  A cast to float rounds *)
(* to the nearest model unit.  Where the source reads markers as           *)
(* coordinates the numbers are as large as the markers; lengths and        *)
(* products are then computed on a coarser grid, to about four digits.     *)

\* Largest whole number whose square fits the integers of the model.
MaxRoot == 46340

RECURSIVE rootBetween(_, _, _)
rootBetween(n, lo, hi) ==
    IF lo >= hi THEN lo
    ELSE LET mid == (lo + hi + 1) \div 2
         IN  IF mid * mid <= n THEN rootBetween(n, mid, hi)
             ELSE rootBetween(n, lo, mid - 1)

\* The grid a number of the given size is computed on.
gridFor(size) ==
    IF size <= 2 ^ 15 THEN 1 ELSE IF size <= 2 ^ 21 THEN 2 ^ 6 ELSE 2 ^ 13

juce_hypot(a, b) ==
    LET k == IF Abs(a) < 2 ^ 15 /\ Abs(b) < 2 ^ 15 THEN 1 ELSE 2 ^ 15
    IN  k * rootBetween((a \div k) * (a \div k) + (b \div k) * (b \div k),
                        0, MaxRoot)

\* (float) of a finite fraction
toFloat(a) == (2 * a[1] + a[2]) \div (2 * a[2])

\* jmin (0.5, cornerRadius / len)
propNeeded(cornerRadius, len) ==
    LET q == RDiv(Num(cornerRadius), Num(len))
    IN  IF RGreater(q, Half) THEN Half ELSE q

\* (float) (from + (to - from) * propNeeded)
alongEdge(from, to, prop) ==
    LET d == to - from
        k == gridFor(prop[2])
        whole == d \div prop[2]
        rest == d % prop[2]
    IN  from + whole * prop[1]
             + toFloat(<<(rest \div k) * prop[1], prop[2] \div k>>)

\* p.data.elements [i] = v
setElement(p, i, v) == [p EXCEPT !.elements[i + 1] = v]

\* The two statements after "if (len1 > 0)": the end of the last record of
\* p is moved back from the join towards the start.
pullBack(p, cornerRadius, startX, startY, joinX, joinY) ==
    LET len1 == juce_hypot(startX - joinX, startY - joinY)
        prop == propNeeded(cornerRadius, len1)
    IN  IF len1 > 0
        THEN setElement(setElement(p, numElements(p) - 2,
                                   alongEdge(joinX, startX, prop)),
                        numElements(p) - 1, alongEdge(joinY, startY, prop))
        ELSE p

\* The statements of the branch taken when the last record was a line.
roundCorner(p, cornerRadius, startX, startY, joinX, joinY, endX, endY) ==
    LET p1 == pullBack(p, cornerRadius, startX, startY, joinX, joinY)
        len2 == juce_hypot(endX - joinX, endY - joinY)
        prop == propNeeded(cornerRadius, len2)
        p2 == IF len2 > 0
              THEN quadraticTo(p1, joinX, joinY, alongEdge(joinX, endX, prop),
                               alongEdge(joinY, endY, prop))
              ELSE p1
    IN  lineTo(p2, endX, endY)

\* The branch "if (firstWasLine)" at a close, without the closeSubPath.
roundFirstCorner(p, cornerRadius, indexOfPathStart, startX, startY, joinX, joinY, endX, endY) ==
    LET p1 == pullBack(p, cornerRadius, startX, startY, joinX, joinY)
        len2 == juce_hypot(endX - joinX, endY - joinY)
        prop == propNeeded(cornerRadius, len2)
        ex == alongEdge(joinX, endX, prop)
        ey == alongEdge(joinY, endY, prop)
    IN  IF len2 > 0
        THEN setElement(setElement(quadraticTo(p1, joinX, joinY, ex, ey),
                                   indexOfPathStart + 1, ex),
                        indexOfPathStart + 2, ey)
        ELSE p1

\* The (0-based) indices of the store at which a record starts.
RECURSIVE markerSlotsFrom(_, _)
markerSlotsFrom(e, index) ==
    IF index >= Len(e) THEN {}
    ELSE {index} \cup markerSlotsFrom(e, index + 1 + numCoordsOf(e[index + 1]))

\* The loop of createPathWithRoundedCorners; s holds its local variables,
\* the path p built so far and two observations: readBeyond, whether an
\* element at an index not below numElements has been read, and
\* markerAsCoordinate, whether a slot that holds a marker has been used as
\* startX, startY, joinX or joinY.  The read of data.elements [n] after the
\* coordinates of a move that ends the store yields a value that is never
\* used (the loop ends); it is taken as no line.
RECURSIVE roundedFrom(_, _, _)
roundedFrom(e, cornerRadius, s) ==
    IF s.n >= Len(e) THEN s
    ELSE
    LET at(i) == e[i + 1]
        type == at(s.n)
        m == s.n + 1
    IN  IF type = moveMarker
        THEN roundedFrom(e, cornerRadius,
                 [s EXCEPT !.n = m + 2,
                           !.indexOfPathStart = numElements(s.p),
                           !.indexOfPathStartThis = m - 1,
                           !.p = startNewSubPath(s.p, at(m), at(m + 1)),
                           !.lastWasLine = FALSE,
                           !.firstWasLine = (m + 2 < Len(e) /\ at(m + 2) = lineMarker),
                           !.readBeyond = @ \/ m + 2 >= Len(e)])
        ELSE IF type = lineMarker \/ type = closeSubPathMarker
        THEN LET isLine == type = lineMarker
                 n == IF isLine THEN m + 2 ELSE m
                 endX == IF isLine THEN at(m) ELSE at(s.indexOfPathStartThis + 1)
                 endY == IF isLine THEN at(m + 1) ELSE at(s.indexOfPathStartThis + 2)
                 back == IF isLine THEN 8 ELSE 6
                 known == n > back
                 startX == IF known THEN at(n - back) ELSE 0
                 startY == IF known THEN at(n - back + 1) ELSE 0
                 joinX == IF known THEN at(n - back + 3) ELSE 0
                 joinY == IF known THEN at(n - back + 4) ELSE 0
                 p1 == IF s.lastWasLine
                       THEN roundCorner(s.p, cornerRadius, startX, startY,
                                        joinX, joinY, endX, endY)
                       ELSE IF isLine THEN lineTo(s.p, endX, endY)
                       ELSE s.p
                 p2 == IF isLine THEN p1
                       ELSE closeSubPath(
                                IF s.firstWasLine
                                THEN roundFirstCorner(p1, cornerRadius,
                                         s.indexOfPathStart, at(n - 3), at(n - 2),
                                         endX, endY,
                                         at(s.indexOfPathStartThis + 4),
                                         at(s.indexOfPathStartThis + 5))
                                ELSE p1)
             IN  roundedFrom(e, cornerRadius,
                     [s EXCEPT !.n = n, !.p = p2,
                               !.lastWasLine = s.lastWasLine \/ isLine,
                               !.markerAsCoordinate =
                                   @ \/ (s.lastWasLine /\ known
                                          /\ {n - back, n - back + 1, n - back + 3,
                                              n - back + 4}
                                                \cap markerSlotsFrom(e, 0) # {})])
        ELSE IF type = quadMarker
        THEN roundedFrom(e, cornerRadius,
                 [s EXCEPT !.n = m + 4, !.lastWasLine = FALSE,
                           !.p = quadraticTo(s.p, at(m), at(m + 1), at(m + 2),
                                             at(m + 3))])
        ELSE IF type = cubicMarker
        THEN roundedFrom(e, cornerRadius,
                 [s EXCEPT !.n = m + 6, !.lastWasLine = FALSE,
                           !.p = cubicTo(s.p, at(m), at(m + 1), at(m + 2), at(m + 3),
                                         at(m + 4), at(m + 5))])
        ELSE roundedFrom(e, cornerRadius, [s EXCEPT !.n = m])

\* The local variables of createPathWithRoundedCorners before the loop.
roundedEntry ==
    [n |-> 0, p |-> NewPath, indexOfPathStart |-> 0,
     indexOfPathStartThis |-> 0, lastWasLine |-> FALSE, firstWasLine |-> FALSE,
     readBeyond |-> FALSE, markerAsCoordinate |-> FALSE]

\* cornerRadius <= 0.01f
tooSmallToRound(cornerRadius) == 100 * cornerRadius <= Unit

\* Path::createPathWithRoundedCorners
createPathWithRoundedCorners(p, cornerRadius) ==
    IF tooSmallToRound(cornerRadius) THEN copyOf(p)
    ELSE roundedFrom(p.elements, cornerRadius, roundedEntry).p

-----------------------------------------------------------------------------
(* applyTransform.  Indices are those of the source (first element at 0).  *)

\* transform.transformPoint (x, y) on two floats of the store
transformedPoint(t, x, y) ==
    LET image == transformPoint(t, Num(x), Num(y))
    IN  <<toFloat(image[1]), toFloat(image[2])>>

\* The transformPoint calls of one record: numPoints points from index i.
RECURSIVE transformPoints(_, _, _, _)
transformPoints(p, t, i, numPoints) ==
    IF numPoints = 0 THEN p
    ELSE LET image == transformedPoint(t, p.elements[i + 1], p.elements[i + 2])
         IN  transformPoints(setElement(setElement(p, i, image[1]), i + 1, image[2]),
                             t, i + 2, numPoints - 1)

\* The jmin / jmax statements of one record, or the assignments of the
\* first move when seed holds.
RECURSIVE foldPoints(_, _, _, _)
foldPoints(p, i, numPoints, seed) ==
    IF numPoints = 0 THEN p
    ELSE LET x == p.elements[i + 1]
             y == p.elements[i + 2]
         IN  foldPoints(
                 IF seed
                 THEN [p EXCEPT !.pathXMin = x, !.pathXMax = x,
                                !.pathYMin = y, !.pathYMax = y]
                 ELSE [p EXCEPT !.pathXMin = jmin(@, x), !.pathXMax = jmax(@, x),
                                !.pathYMin = jmin(@, y), !.pathYMax = jmax(@, y)],
                 i + 2, numPoints - 1, FALSE)

\* The first move folds into the zero box instead of replacing it.
seedsBounds_never(type, setMaxMin) == FALSE

seedsBounds(type, setMaxMin) == type = moveMarker /\ ~setMaxMin

\* The loop of applyTransform.
RECURSIVE applyTransformFrom(_, _, _, _)
applyTransformFrom(p, t, i, setMaxMin) ==
    IF i >= numElements(p) THEN p
    ELSE LET type == p.elements[i + 1]
             numPoints == numCoordsOf(type) \div 2
             moved == transformPoints(p, t, i + 1, numPoints)
         IN  applyTransformFrom(
                 foldPoints(moved, i + 1, numPoints, seedsBounds(type, setMaxMin)),
                 t, i + 1 + 2 * numPoints,
                 setMaxMin \/ type = moveMarker)

\* Path::applyTransform
applyTransform(p, t) ==
    applyTransformFrom([p EXCEPT !.pathXMin = 0, !.pathXMax = 0,
                                 !.pathYMin = 0, !.pathYMax = 0],
                       t, 0, FALSE)

-----------------------------------------------------------------------------
(* addStar.  The vertices are sines and cosines in the source; here outer  *)
(* and inner are the sequences of the numberOfPoints outer and inner       *)
(* vertices the loop computes, in the order it computes them.              *)

\* The for loop from i on.
RECURSIVE addStarFrom(_, _, _, _, _)
addStarFrom(p, numberOfPoints, outer, inner, i) ==
    IF i >= numberOfPoints THEN p
    ELSE LET p1 == IF i = 0
                   THEN startNewSubPath(p, outer[i + 1][1], outer[i + 1][2])
                   ELSE lineTo(p, outer[i + 1][1], outer[i + 1][2])
         IN  addStarFrom(lineTo(p1, inner[i + 1][1], inner[i + 1][2]),
                         numberOfPoints, outer, inner, i + 1)

\* Path::addStar
addStar(p, numberOfPoints, outer, inner) ==
    IF numberOfPoints > 1
    THEN closeSubPath(addStarFrom(p, numberOfPoints, outer, inner, 0))
    ELSE p

-----------------------------------------------------------------------------
(* addPath with a transform, swapWithPath, and addPath one iteration at a  *)
(* time.                                                                   *)

\* The loop of Path::addPath (const Path& other, const AffineTransform&),
\* other not being the path itself: p is the receiver so far, e the
\* elements of other, i the (1-based) index of the next read.
RECURSIVE addPathTransformedFrom(_, _, _, _)
addPathTransformedFrom(p, e, t, i) ==
    IF i > Len(e) THEN p
    ELSE LET type == e[i]
             a == transformedPoint(t, e[i + 1], e[i + 2])
             b == transformedPoint(t, e[i + 3], e[i + 4])
             c == transformedPoint(t, e[i + 5], e[i + 6])
         IN  IF type = closeSubPathMarker
             THEN addPathTransformedFrom(closeSubPath(p), e, t, i + 1)
             ELSE IF type = moveMarker
             THEN addPathTransformedFrom(startNewSubPath(p, a[1], a[2]), e, t, i + 3)
             ELSE IF type = lineMarker
             THEN addPathTransformedFrom(lineTo(p, a[1], a[2]), e, t, i + 3)
             ELSE IF type = quadMarker
             THEN addPathTransformedFrom(quadraticTo(p, a[1], a[2], b[1], b[2]),
                                         e, t, i + 5)
             ELSE IF type = cubicMarker
             THEN addPathTransformedFrom(cubicTo(p, a[1], a[2], b[1], b[2],
                                                 c[1], c[2]), e, t, i + 7)
             ELSE addPathTransformedFrom(p, e, t, i + 3)

\* Path::addPath (const Path& other, const AffineTransform& transformToApply)
addPathTransformed(p, other, t) == addPathTransformedFrom(p, other.elements, t, 1)

\* No addPath call is in progress.
NoCall == [i |-> 0, other |-> "none", held |-> <<>>, before |-> <<>>]

\* The state of an addPath call on entry: size_t i = 0.  other is "path"
\* when the argument is the receiver itself and "saved" when it is the
\* second object; held and before are the elements of the argument and of
\* the receiver at that moment (history).
addPathEntry(p, other, q) ==
    [i |-> 0, other |-> other, held |-> q.elements, before |-> p.elements]

\* while (i < other.numElements), read on the argument as it is now.
addPathContinues(c, p, q) ==
    c.i < numElements(IF c.other = "path" THEN p ELSE q)

\* One iteration of the loop of Path::addPath (const Path& other) at index
\* i (0-based) of the elements e of the argument: the record there is read
\* and the builder call for it is made on p.
addPathIteration(p, e, i) ==
    addPathFrom(p, SubSeq(e, i + 1, i + 1 + numCoordsOf(e[i + 1])), 1)

-----------------------------------------------------------------------------
(* getClippedLine.  A line is <<x1, y1, x2, y2>>.                          *)

\* Line<float>::intersects (other, intersection): whether the two segments
\* cross, and the point where they do: start + (end - start) * along1,
\* rounded to a float.  Parallel segments do not cross.
intersects(line, other) ==
    LET d1x == line[3] - line[1]
        d1y == line[4] - line[2]
        d2x == other[3] - other[1]
        d2y == other[4] - other[2]
        divisor == d1x * d2y - d2x * d1y
        along1 == Rat((line[2] - other[2]) * d2x - (line[1] - other[1]) * d2y,
                      divisor)
        along2 == Rat((line[2] - other[2]) * d1x - (line[1] - other[1]) * d1y,
                      divisor)
        within(a) == a[1] >= 0 /\ a[1] <= a[2]
    IN  IF divisor = 0 THEN [hit |-> FALSE, intersection |-> <<0, 0>>]
        ELSE [hit |-> within(along1) /\ within(along2),
              intersection |->
                  << toFloat(RAdd(Num(line[1]), RMul(Num(d1x), along1))),
                     toFloat(RAdd(Num(line[2]), RMul(Num(d1y), along1))) >>]

\* The while loop of getClippedLine over the edges from k on.
RECURSIVE clipFrom(_, _, _, _, _)
clipFrom(edges, k, line, clipped, moveStart) ==
    IF k > Len(edges) THEN clipped
    ELSE LET x == intersects(line, edges[k])
         IN  clipFrom(edges, k + 1, line,
                      IF ~x.hit THEN clipped
                      ELSE IF moveStart
                      THEN <<x.intersection[1], x.intersection[2], clipped[3], clipped[4]>>
                      ELSE <<clipped[1], clipped[2], x.intersection[1], x.intersection[2]>>,
                      moveStart)

\* A variant that empties the line when the flag differs from the shared
\* status.
getClippedLine_flagInverted(p, line, keepSectionOutsidePath) ==
    LET startInside == contains(p, line[1], line[2])
        endInside == contains(p, line[3], line[4])
    IN  IF startInside = endInside
        THEN IF keepSectionOutsidePath # startInside THEN <<0, 0, 0, 0>> ELSE line
        ELSE clipFrom(flattenedEdges(p), 1, line, line,
                      (startInside /\ keepSectionOutsidePath)
                          \/ (endInside /\ ~keepSectionOutsidePath))

\* Path::getClippedLine
getClippedLine(p, line, keepSectionOutsidePath) ==
    LET startInside == contains(p, line[1], line[2])
        endInside == contains(p, line[3], line[4])
    IN  IF startInside = endInside
        THEN IF keepSectionOutsidePath = startInside THEN <<0, 0, 0, 0>> ELSE line
        ELSE clipFrom(flattenedEdges(p), 1, line, line,
                      (startInside /\ keepSectionOutsidePath)
                          \/ (endInside /\ ~keepSectionOutsidePath))

-----------------------------------------------------------------------------
(* addBubble.  arrowPos is a fraction; arcs are the vertices of the four   *)
(* corner arcs in the order the source adds them (inputs, as for addArc).  *)

\* (float) (length * arrowPos)
scaledBy(length, arrowPos) == toFloat(RMul(Num(length), arrowPos))

\* jmin (arrowWidth, length - cs2) * 0.5f
halfArrow(arrowWidth, length, cs2) == scaledBy(jmin(arrowWidth, length - cs2), Half)

\* arrowX1 and arrowY1:
\* from + cs + jmax (0.0f, (length - cs2) * arrowPos - halfArrow)
arrowStart(from, cs, length, cs2, arrowPos, arrowWidth) ==
    from + cs + jmax(0, scaledBy(length - cs2, arrowPos)
                          - halfArrow(arrowWidth, length, cs2))

\* The three lineTo calls of a tail on a horizontal edge at height edgeY,
\* from base point x1 to base point x2.
tailAcross(p, x1, x2, edgeY, tipX, tipY) ==
    lineTo(lineTo(lineTo(p, x1, edgeY), tipX, tipY), x2, edgeY)

\* The same on a vertical edge at edgeX, from y1 to y2.
tailAlong(p, y1, y2, edgeX, tipX, tipY) ==
    lineTo(lineTo(lineTo(p, edgeX, y1), tipX, tipY), edgeX, y2)

\* Path::addBubble
addBubble(p, x, y, w, h, cs0, tipX, tipY, whichSide, arrowPos, arrowWidth, arcs) ==
    IF w > Unit /\ h > Unit
    THEN LET cs == jmin(jmin(cs0, scaledBy(w, Half)), scaledBy(h, Half))
             cs2 == 2 * cs
             arrowX1 == arrowStart(x, cs, w, cs2, arrowPos, arrowWidth)
             arrowX2 == arrowX1 + halfArrow(arrowWidth, w, cs2) * 2
             arrowY1 == arrowStart(y, cs, h, cs2, arrowPos, arrowWidth)
             arrowY2 == arrowY1 + halfArrow(arrowWidth, h, cs2) * 2
             corner(q, k) == IF cs > 0 THEN addArc(q, arcs[k]) ELSE q
             p0 == startNewSubPath(p, x + cs, y)
             p1 == IF whichSide = 0
                   THEN tailAcross(p0, arrowX1, arrowX2, y, tipX, tipY) ELSE p0
             p2 == corner(lineTo(p1, x + w - cs, y), 1)
             p3 == IF whichSide = 3
                   THEN tailAlong(p2, arrowY1, arrowY2, x + w, tipX, tipY) ELSE p2
             p4 == corner(lineTo(p3, x + w, y + h - cs), 2)
             p5 == IF whichSide = 2
                   THEN tailAcross(p4, arrowX2, arrowX1, y + h, tipX, tipY) ELSE p4
             p6 == corner(lineTo(p5, x + cs, y + h), 3)
             p7 == IF whichSide = 1
                   THEN tailAlong(p6, arrowY2, arrowY1, x, tipX, tipY) ELSE p6
             p8 == corner(lineTo(p7, x, y + cs), 4)
         IN  closeSubPath(p8)
    ELSE p

-----------------------------------------------------------------------------
(* WebBrowserComponent (juce_mac_WebBrowserComponent.mm).  A component is  *)
(* a record of its members; showing is what Component::isShowing returns;  *)
(* issued is the sequence of messages the last call sent to the web view.  *)
(* The url, headers and postData arguments of goToURL are a reference and  *)
(* two pointers: each is modelled by what it refers to, a caller's object  *)
(* with a value or a member of the component, and is read when the         *)
(* statement that reads it executes.                                       *)

nullptr == [to |-> "nullptr", value |-> <<>>]

\* The address of an object of the caller that holds value.
AddressOf(value) == [to |-> "object", value |-> value]

\* The address of the member of the component of that name.
AddressOfMember(name) == [to |-> name, value |-> <<>>]

\* *ptr on the component w
Deref(w, ptr) ==
    IF ptr.to = "object" THEN ptr.value
    ELSE IF ptr.to = "lastURL" THEN w.lastURL
    ELSE IF ptr.to = "lastHeaders" THEN w.lastHeaders
    ELSE w.lastPostData

\* WebBrowserComponent::WebBrowserComponent
WebBrowserComponent(unloadPageWhenBrowserIsHidden_) ==
    [lastURL |-> <<>>, lastHeaders |-> <<>>, lastPostData |-> <<>>,
     blankPageShown |-> FALSE,
     unloadPageWhenBrowserIsHidden |-> unloadPageWhenBrowserIsHidden_,
     showing |-> FALSE,
     issued |-> <<>>]

\* A message to the web view; url, headers and body are empty for all but
\* loadRequest.
Message(command, url, headers, body) ==
    [command |-> command, url |-> url, headers |-> headers, body |-> body]

\* WebBrowserComponentInternal::goToURL: the request is built from the
\* arguments (a body only for post data of a size above 0, one header field
\* per string of the list), then stop() and loadRequest.
browser_goToURL(w, url, headers, postData) ==
    LET body == IF postData.to # "nullptr" /\ Len(Deref(w, postData)) > 0
                THEN Deref(w, postData) ELSE <<>>
        fields == IF headers.to # "nullptr" THEN Deref(w, headers) ELSE <<>>
    IN  [w EXCEPT !.issued = @ \o << Message("stopLoading", <<>>, <<>>, <<>>),
                                      Message("loadRequest", Deref(w, url),
                                              fields, body) >>]

\* WebBrowserComponent::goToURL
goToURL(w, url, headers, postData) ==
    LET w1 == [w EXCEPT !.lastURL = Deref(w, url)]
        w2 == [w1 EXCEPT !.lastHeaders = <<>>]
        w3 == IF headers.to # "nullptr"
              THEN [w2 EXCEPT !.lastHeaders = Deref(w2, headers)] ELSE w2
        w4 == [w3 EXCEPT !.lastPostData = <<>>]
        w5 == IF postData.to # "nullptr"
              THEN [w4 EXCEPT !.lastPostData = Deref(w4, postData)] ELSE w4
        w6 == [w5 EXCEPT !.blankPageShown = FALSE]
    IN  browser_goToURL(w6, url, headers, postData)

\* WebBrowserComponent::goBack
goBack(w) ==
    [w EXCEPT !.lastURL = <<>>, !.blankPageShown = FALSE,
              !.issued = Append(@, Message("goBack", <<>>, <<>>, <<>>))]

\* WebBrowserComponent::goForward
goForward(w) ==
    [w EXCEPT !.lastURL = <<>>,
              !.issued = Append(@, Message("goForward", <<>>, <<>>, <<>>))]

\* WebBrowserComponent::refresh
refresh(w) == [w EXCEPT !.issued = Append(@, Message("reload", <<>>, <<>>, <<>>))]

\* The url of the blank page: the literal "about:blank".
aboutBlank == <<"about:blank">>

\* A variant that loads the blank page without recording that it did.
checkWindowAssociation_flagNotSet(w) ==
    IF w.showing
    THEN IF w.blankPageShown THEN goBack(w) ELSE w
    ELSE IF w.unloadPageWhenBrowserIsHidden /\ ~w.blankPageShown
         THEN browser_goToURL(w, AddressOf(aboutBlank), nullptr, nullptr)
         ELSE w

\* WebBrowserComponent::checkWindowAssociation
checkWindowAssociation(w) ==
    IF w.showing
    THEN IF w.blankPageShown THEN goBack(w) ELSE w
    ELSE IF w.unloadPageWhenBrowserIsHidden /\ ~w.blankPageShown
         THEN browser_goToURL([w EXCEPT !.blankPageShown = TRUE],
                              AddressOf(aboutBlank), nullptr, nullptr)
         ELSE w

\* WebBrowserComponent::reloadLastURL
reloadLastURL(w) ==
    IF w.lastURL # <<>>
    THEN [goToURL(w, AddressOfMember("lastURL"), AddressOfMember("lastHeaders"),
                  AddressOfMember("lastPostData"))
             EXCEPT !.lastURL = <<>>]
    ELSE w

-----------------------------------------------------------------------------
(* Inputs of the builder calls. *)

\* Points of the builder calls: the origin, a point off the 3-decimal grid,
\* and points whose coordinates have the values of markers.
Pts ==
    { <<0, 0>>,
      <<3001, -2001>>,
      <<Unit, closeSubPathMarker>>,
      <<lineMarker, moveMarker>> }

CtrlPts == { <<-Unit, 5 * Unit>>, <<quadMarker, closeSubPathMarker>> }

RectOrigins == { <<0, 0>>, <<Unit, closeSubPathMarker - 3 * Unit>> }

RectSizes == { <<2 * Unit, 3 * Unit>>, <<-2 * Unit, 3 * Unit>>,
               <<2 * Unit, -3 * Unit>>, <<0, 0>> }

Building == op.name \notin {"writePathToStream", "loadPathFromStream",
                          "toString", "restoreFromString"}

Init ==
    /\ path = NewPath
    /\ op = [name |-> "Path", args |-> <<>>]
    /\ result = <<>>
    /\ xs = {}
    /\ ys = {}
    /\ stream = <<>>
    /\ text = <<>>
    /\ saved = NewPath
    /\ call = NoCall
    /\ web = WebBrowserComponent(TRUE)

-----------------------------------------------------------------------------
(* One action per call. xs and ys collect the coordinates appended since   *)
(* construction or the last clear (history, not state of the program).     *)

Flag(b) == IF b THEN 1 ELSE 0

Implicit(S) == IF numElements(path) = 0 THEN S \cup {0} ELSE S

StartNewSubPathAt(S, max) ==
    \E pt \in S :
        /\ numElements(path) + 3 <= max
        /\ path' = startNewSubPath(path, pt[1], pt[2])
        /\ op' = [name |-> "startNewSubPath", args |-> pt]
        /\ xs' = xs \cup {pt[1]}
        /\ ys' = ys \cup {pt[2]}
        /\ result' = <<>>
        /\ UNCHANGED serial

LineToAt(S, max) ==
    \E pt \in S :
        /\ numElements(path) + 3 <= max
        /\ path' = lineTo(path, pt[1], pt[2])
        /\ op' = [name |-> "lineTo", args |-> pt]
        /\ xs' = Implicit(xs) \cup {pt[1]}
        /\ ys' = Implicit(ys) \cup {pt[2]}
        /\ result' = <<>>
        /\ UNCHANGED serial

QuadraticToAt(C, S, max) ==
    \E c \in C, pt \in S :
        /\ numElements(path) + 5 <= max
        /\ path' = quadraticTo(path, c[1], c[2], pt[1], pt[2])
        /\ op' = [name |-> "quadraticTo", args |-> c \o pt]
        /\ xs' = Implicit(xs) \cup {c[1], pt[1]}
        /\ ys' = Implicit(ys) \cup {c[2], pt[2]}
        /\ result' = <<>>
        /\ UNCHANGED serial

CubicToAt(C, S, max) ==
    \E c1 \in C, c2 \in C, pt \in S :
        /\ numElements(path) + 7 <= max
        /\ path' = cubicTo(path, c1[1], c1[2], c2[1], c2[2], pt[1], pt[2])
        /\ op' = [name |-> "cubicTo", args |-> c1 \o c2 \o pt]
        /\ xs' = Implicit(xs) \cup {c1[1], c2[1], pt[1]}
        /\ ys' = Implicit(ys) \cup {c1[2], c2[2], pt[2]}
        /\ result' = <<>>
        /\ UNCHANGED serial

CloseSubPathUpTo(max) ==
    /\ numElements(path) + 1 <= max
    /\ path' = closeSubPath(path)
    /\ op' = [name |-> "closeSubPath", args |-> <<>>]
    /\ result' = <<>>
    /\ UNCHANGED <<xs, ys, serial>>

AddRectangleOf(origins, sizes, base) ==
    \E o \in origins, s \in sizes :
        /\ numElements(path) <= base
        /\ path' = addRectangle(path, o[1], o[2], s[1], s[2])
        /\ op' = [name |-> "addRectangle", args |-> o \o s]
        /\ xs' = xs \cup {o[1], o[1] + s[1]}
        /\ ys' = ys \cup {o[2], o[2] + s[2]}
        /\ result' = <<>>
        /\ UNCHANGED serial

StartNewSubPath == StartNewSubPathAt(Pts, MaxElements)

LineTo == LineToAt(Pts, MaxElements)

QuadraticTo == QuadraticToAt(CtrlPts, Pts, MaxElements)

CubicTo == CubicToAt(CtrlPts, Pts, MaxElements)

CloseSubPath == CloseSubPathUpTo(MaxElements)

AddRectangle == AddRectangleOf(RectOrigins, RectSizes, MaxRectBase)

Clear ==
    /\ numElements(path) > 0
    /\ path' = clear(path)
    /\ op' = [name |-> "clear", args |-> <<>>]
    /\ xs' = {}
    /\ ys' = {}
    /\ result' = <<>>
    /\ UNCHANGED serial

SetUsingNonZeroWinding ==
    \E b \in BOOLEAN :
        /\ b # path.useNonZeroWinding
        /\ path' = setUsingNonZeroWinding(path, b)
        /\ op' = [name |-> "setUsingNonZeroWinding", args |-> <<>>]
        /\ result' = <<>>
        /\ UNCHANGED <<xs, ys, serial>>

IsEmpty ==
    /\ op.name # "isEmpty"
    /\ result' = <<isEmpty(path)>>
    /\ op' = [name |-> "isEmpty", args |-> <<>>]
    /\ UNCHANGED <<path, xs, ys, serial>>

\* Floats that may lie next to the array.
Garbage == { 0, 7 * Unit, moveMarker, closeSubPathMarker }

GetCurrentPosition ==
    \E b1 \in Garbage, b2 \in Garbage, beyond \in Garbage :
        LET r == getCurrentPosition(path, <<b1, b2>>, beyond)
        IN  /\ op.name # "getCurrentPosition"
            /\ result' = r.point
            /\ op' = [name |-> "getCurrentPosition",
                      args |-> <<Flag(r.readOutside)>>]
            /\ UNCHANGED <<path, xs, ys, serial>>

Next ==
    \/ StartNewSubPath
    \/ LineTo
    \/ QuadraticTo
    \/ CubicTo
    \/ CloseSubPath
    \/ AddRectangle
    \/ Clear
    \/ SetUsingNonZeroWinding
    \/ IsEmpty
    \/ GetCurrentPosition

Spec == Init /\ [][Next]_vars

-----------------------------------------------------------------------------
(* Writing a built path and reading it back into a new path. *)

WritePathToStream ==
    /\ stream = <<>>
    /\ text = <<>>
    /\ stream' = writePathToStream(path)
    /\ saved' = path
    /\ op' = [name |-> "writePathToStream", args |-> <<>>]
    /\ result' = <<>>
    /\ UNCHANGED <<path, xs, ys, text, call, web>>

\* Path q; q.loadPathFromStream (stream)
LoadPathFromStream ==
    /\ op.name = "writePathToStream"
    /\ path' = loadPathFromStream(NewPath, stream)
    /\ op' = [name |-> "loadPathFromStream", args |-> <<>>]
    /\ result' = <<>>
    /\ UNCHANGED <<xs, ys, serial>>

NextStream ==
    \/ Building /\ StartNewSubPath
    \/ Building /\ LineTo
    \/ Building /\ QuadraticTo
    \/ Building /\ CubicTo
    \/ Building /\ CloseSubPath
    \/ Building /\ AddRectangle
    \/ Building /\ SetUsingNonZeroWinding
    \/ WritePathToStream
    \/ LoadPathFromStream

SpecStream == Init /\ [][NextStream]_vars

-----------------------------------------------------------------------------
(* Printing a built path and parsing the text back. *)

ToString ==
    /\ stream = <<>>
    /\ op.name # "toString"
    /\ op.name # "restoreFromString"
    /\ text' = toString(path)
    /\ saved' = path
    /\ op' = [name |-> "toString", args |-> <<>>]
    /\ result' = <<>>
    /\ UNCHANGED <<path, xs, ys, stream, call, web>>

\* target.restoreFromString (text), target being the printed path itself or
\* a new path.
RestoreFromString ==
    \E target \in {path, NewPath} :
        /\ op.name = "toString"
        /\ path' = restoreFromString(target, text)
        /\ op' = [name |-> "restoreFromString", args |-> <<>>]
        /\ result' = <<>>
        /\ UNCHANGED <<xs, ys, serial>>

NextText ==
    \/ Building /\ StartNewSubPath
    \/ Building /\ LineTo
    \/ Building /\ QuadraticTo
    \/ Building /\ CubicTo
    \/ Building /\ CloseSubPath
    \/ Building /\ AddRectangle
    \/ Building /\ SetUsingNonZeroWinding
    \/ ToString
    \/ RestoreFromString

SpecText == Init /\ [][NextText]_vars

-----------------------------------------------------------------------------
(* Containment queries on polygons (moves, lines and closes on a small     *)
(* grid) and on rectangles.                                                *)

\* Vertices of the polygons.
GeomPts == { <<0, 0>>, <<4 * Unit, 0>>, <<2 * Unit, 2 * Unit>>,
             <<4 * Unit, 4 * Unit>>, <<0, 4 * Unit>> }

\* Points asked about: the grid points and the points between them.
QueryPts == { <<x * Unit, y * Unit>> : x \in 1..3, y \in 1..3 }

\* Largest number of store elements a polygon may reach.
MaxGeomElements == 13

\* Largest number of rectangles in one path.
MaxRects == 2

\* Largest number of store elements of the moves and lines that may precede
\* the rectangles.
MaxLeadElements == 6

GeomRectOrigins == { <<0, 0>>, <<10 * Unit, 5 * Unit>>, <<4 * Unit, 2 * Unit>> }

GeomRectSizes == { <<10 * Unit, 5 * Unit>>, <<-10 * Unit, -5 * Unit>>,
                   <<-3 * Unit, 2 * Unit>>, <<0, 5 * Unit>> }

\* Half-unit steps: (5, 2.5) is <<10, 5>>.
RectQueryPts == { <<x * (Unit \div 2), y * (Unit \div 2)>> :
                      x \in {-2, 3, 10, 19, 22}, y \in {-1, 5, 7, 12} }

Contains(Q) ==
    \E pt \in Q :
        /\ op.name # "contains"
        /\ result' = <<contains(path, pt[1], pt[2])>>
        /\ op' = [name |-> "contains", args |-> pt]
        /\ UNCHANGED <<path, xs, ys, serial>>

NextContains ==
    \/ StartNewSubPathAt(GeomPts, MaxGeomElements)
    \/ LineToAt(GeomPts, MaxGeomElements)
    \/ CloseSubPathUpTo(MaxGeomElements)
    \/ SetUsingNonZeroWinding
    \/ Contains(QueryPts)

SpecContains == Init /\ [][NextContains]_vars

NextRect ==
    \/ StartNewSubPathAt(GeomPts, MaxLeadElements)
    \/ LineToAt(GeomPts, MaxLeadElements)
    \/ AddRectangleOf(GeomRectOrigins, GeomRectSizes, 13 * (MaxRects - 1))
    \/ Clear
    \/ SetUsingNonZeroWinding
    \/ Contains(RectQueryPts)

SpecRect == Init /\ [][NextRect]_vars

-----------------------------------------------------------------------------
(* Every way a close record can get into a store: the builder calls, shape *)
(* constructors, addPath, and the two readers given any input.             *)

\* Largest number of store elements a shape, addPath or a reader may start
\* from.
MaxShapeBase == 4

\* Largest store the builder calls grow next to the shapes.
MaxCloseElements == 8

ArcCtrlPts == { <<quadMarker, closeSubPathMarker>> }

\* End points of arcs: an ordinary point and one whose last coordinate has
\* the value of the close marker.
ArcPts == { <<0, 0>>, <<Unit, closeSubPathMarker>> }

Arcs == {<<>>} \cup { <<pt>> : pt \in ArcPts }

AddTriangle ==
    \E a \in ArcPts, b \in {<<Unit, 0>>}, c \in ArcPts :
        /\ numElements(path) <= MaxShapeBase
        /\ path' = addTriangle(path, a[1], a[2], b[1], b[2], c[1], c[2])
        /\ op' = [name |-> "addTriangle", args |-> a \o b \o c]
        /\ xs' = xs \cup {a[1], b[1], c[1]}
        /\ ys' = ys \cup {a[2], b[2], c[2]}
        /\ result' = <<>>
        /\ UNCHANGED serial

AddPieSegment ==
    \E start \in ArcPts, arc \in Arcs, fullCircle \in BOOLEAN, hasInner \in BOOLEAN,
       innerStart \in ArcPts, innerArc \in Arcs :
        /\ numElements(path) <= MaxShapeBase
        /\ path' = addPieSegment(path, start, arc, fullCircle, hasInner,
                                 innerStart, innerArc, <<0, 0>>)
        /\ op' = [name |-> "addPieSegment",
                  args |-> <<Flag(fullCircle), Flag(hasInner)>>]
        /\ xs' = {path'.pathXMin, path'.pathXMax}
        /\ ys' = {path'.pathYMin, path'.pathYMax}
        /\ result' = <<>>
        /\ UNCHANGED serial

\* Path other (path)
CopyPath ==
    /\ saved # path
    /\ numElements(path) <= MaxCloseElements
    /\ saved' = copyOf(path)
    /\ op' = [name |-> "Path", args |-> <<>>]
    /\ result' = <<>>
    /\ UNCHANGED <<path, xs, ys, stream, text, call, web>>

\* path.addPath (saved)
AddPath ==
    /\ numElements(path) <= MaxShapeBase
    /\ numElements(saved) > 0
    /\ path' = addPath(path, saved)
    /\ op' = [name |-> "addPath", args |-> <<>>]
    /\ xs' = {path'.pathXMin, path'.pathXMax}
    /\ ys' = {path'.pathYMin, path'.pathYMax}
    /\ result' = <<>>
    /\ UNCHANGED serial

\* Streams a reader may be given: any two record bytes of move, line and
\* close with one point as their coordinates, a winding byte and the end.
StreamRecord(tag, pt) ==
    IF tag = "m" THEN <<Ascii.m>> \o writeFloat(pt[1]) \o writeFloat(pt[2])
    ELSE IF tag = "l" THEN <<Ascii.l>> \o writeFloat(pt[1]) \o writeFloat(pt[2])
    ELSE <<Ascii.c>>

Streams ==
    { <<Ascii.z>> \o StreamRecord(t1, pt) \o StreamRecord(t2, pt) \o <<Ascii.e>> :
          t1 \in {"m", "l", "c"}, t2 \in {"m", "l", "c"}, pt \in ArcPts }

\* path.loadPathFromStream (source) for any of these streams.
LoadAnyStream ==
    \E source \in Streams :
        /\ numElements(path) <= MaxShapeBase
        /\ path' = loadPathFromStream(path, source)
        /\ op' = [name |-> "loadPathFromStream", args |-> <<>>]
        /\ xs' = {path'.pathXMin, path'.pathXMax}
        /\ ys' = {path'.pathYMin, path'.pathYMax}
        /\ result' = <<>>
        /\ UNCHANGED serial

\* Strings a reader may be given.
Strings ==
    { <<"z">>,
      <<"z", " ", "z">>,
      <<"m", " ", "1", " ", "2", " ", "z", " ", "z">>,
      <<"a", " ", "l", " ", "1", " ", "1", "0", "0", "0", "0", "5", " ", "z",
        " ", "z", " ", "z">>,
      <<"m", " ", "0", " ", "0", " ", "z", " ", "m", " ", "1", " ", "1", " ", "z">> }

\* path.restoreFromString (str) for any of these strings.
RestoreAnyString ==
    \E str \in Strings :
        /\ path' = restoreFromString(path, str)
        /\ op' = [name |-> "restoreFromString", args |-> <<>>]
        /\ xs' = {path'.pathXMin, path'.pathXMax}
        /\ ys' = {path'.pathYMin, path'.pathYMax}
        /\ result' = <<>>
        /\ UNCHANGED serial

NextClose ==
    \/ StartNewSubPathAt(ArcPts, MaxCloseElements)
    \/ LineToAt(ArcPts, MaxCloseElements)
    \/ QuadraticToAt(ArcCtrlPts, ArcPts, MaxCloseElements)
    \/ CubicToAt(ArcCtrlPts, ArcPts, MaxCloseElements)
    \/ CloseSubPathUpTo(MaxCloseElements)
    \/ AddRectangleOf(RectOrigins, RectSizes, MaxShapeBase)
    \/ AddTriangle
    \/ AddPieSegment
    \/ CopyPath
    \/ AddPath
    \/ LoadAnyStream
    \/ RestoreAnyString

SpecClose == Init /\ [][NextClose]_vars

-----------------------------------------------------------------------------
(* Scaling to fit: paths with a few points, asked for the transform that   *)
(* fits their bounds into a target rectangle.                              *)

MaxFitElements == 6

FitPts == { <<0, 0>>, <<10 * Unit, 20 * Unit>>, <<10 * Unit, 0>>,
            <<-4 * Unit, 6 * Unit>> }

FitOrigins == { <<0, 0>>, <<3 * Unit, -Unit>> }

FitSizes == { <<100 * Unit, 100 * Unit>>, <<30 * Unit, 90 * Unit>>,
              <<0, 100 * Unit>>, <<100 * Unit, -Unit>> }

Justifications == { {}, {"left"}, {"right"}, {"top"}, {"bottom"},
                    {"horizontallyCentred", "verticallyCentred"},
                    {"left", "right", "bottom"} }

GetTransformToScaleToFit ==
    \E o \in FitOrigins, s \in FitSizes, preserveProportions \in BOOLEAN,
       justification \in Justifications :
        /\ result' = getTransformToScaleToFit(path, o[1], o[2], s[1], s[2],
                                              preserveProportions, justification)
        /\ op' = [name |-> "getTransformToScaleToFit",
                  args |-> <<o[1], o[2], s[1], s[2], Flag(preserveProportions),
                             justification>>]
        /\ UNCHANGED <<path, xs, ys, serial>>

NextFit ==
    \/ StartNewSubPathAt(FitPts, MaxFitElements)
    \/ LineToAt(FitPts, MaxFitElements)
    \/ Clear
    \/ GetTransformToScaleToFit

SpecFit == Init /\ [][NextFit]_vars

-----------------------------------------------------------------------------
(* Rounding corners: polygons and curves over the corners of a square of   *)
(* side 10, and polygons that have an edge whose y coordinate has the      *)
(* value of the close marker.                                              *)

MaxRoundElements == 13

RoundPts == { <<0, 0>>, <<10 * Unit, 0>>, <<10 * Unit, 10 * Unit>>,
              <<0, 10 * Unit>> }

RoundCtrlPts == { <<4 * Unit, 3 * Unit>> }

Radii == { 3 * Unit, 8 * Unit, Unit \div 100 }

CreatePathWithRoundedCorners ==
    \E cornerRadius \in Radii :
        /\ numElements(path) > 0
        /\ result' = createPathWithRoundedCorners(path, cornerRadius)
        /\ op' = [name |-> "createPathWithRoundedCorners",
                  args |-> <<cornerRadius>>]
        /\ UNCHANGED <<path, xs, ys, serial>>

PolygonPts == { <<0, 0>>, <<10 * Unit, 0>>, <<0, closeSubPathMarker>>,
                <<10 * Unit, closeSubPathMarker>> }

NextRound ==
    \/ StartNewSubPathAt(RoundPts, MaxRoundElements)
    \/ LineToAt(RoundPts, MaxRoundElements)
    \/ QuadraticToAt(RoundCtrlPts, RoundPts, MaxRoundElements)
    \/ CubicToAt(RoundCtrlPts, RoundCtrlPts, MaxRoundElements)
    \/ CloseSubPathUpTo(MaxRoundElements)
    \/ CreatePathWithRoundedCorners

SpecRound == Init /\ [][NextRound]_vars

NextPolygon ==
    \/ StartNewSubPathAt(PolygonPts, MaxRoundElements)
    \/ LineToAt(PolygonPts, MaxRoundElements)
    \/ CloseSubPathUpTo(MaxRoundElements)
    \/ CreatePathWithRoundedCorners

SpecPolygon == Init /\ [][NextPolygon]_vars

-----------------------------------------------------------------------------
(* Transforming a built path once; saved keeps the path as it was before.  *)

Transforms ==
    { translated(scaled(identity, Num(2), Num(2)), Num(Unit), Num(-Unit)),
      [identity EXCEPT !.mat00 = Num(0), !.mat01 = Num(-1),
                       !.mat10 = Num(1), !.mat11 = Num(0)],
      [identity EXCEPT !.mat01 = Half, !.mat02 = Num(5 * Unit),
                       !.mat12 = Num(7 * Unit)] }

Untransformed == op.name # "applyTransform"

ApplyTransform ==
    \E t \in Transforms :
        /\ Untransformed
        /\ saved' = copyOf(path)
        /\ path' = applyTransform(path, t)
        /\ op' = [name |-> "applyTransform", args |-> <<t>>]
        /\ result' = <<>>
        /\ UNCHANGED <<xs, ys, stream, text, call, web>>

NextTransform ==
    \/ Untransformed /\ StartNewSubPath
    \/ Untransformed /\ LineTo
    \/ Untransformed /\ QuadraticTo
    \/ Untransformed /\ CubicTo
    \/ Untransformed /\ CloseSubPath
    \/ Untransformed /\ Clear
    \/ ApplyTransform

SpecTransform == Init /\ [][NextTransform]_vars

-----------------------------------------------------------------------------
(* A cleared path next to a new one: every call is made on path and on     *)
(* saved alike, and where path is cleared saved becomes a new Path.        *)

TwinCall(Call(_), name, args) ==
    /\ path' = Call(path)
    /\ saved' = Call(saved)
    /\ op' = [name |-> name, args |-> args]
    /\ result' = <<>>
    /\ UNCHANGED <<xs, ys, stream, text, call, web>>

TwinStartNewSubPath ==
    \E pt \in Pts :
        /\ numElements(path) + 3 <= MaxElements
        /\ TwinCall(LAMBDA p : startNewSubPath(p, pt[1], pt[2]),
                    "startNewSubPath", pt)

TwinLineTo ==
    \E pt \in Pts :
        /\ numElements(path) + 3 <= MaxElements
        /\ TwinCall(LAMBDA p : lineTo(p, pt[1], pt[2]), "lineTo", pt)

TwinQuadraticTo ==
    \E c \in CtrlPts, pt \in Pts :
        /\ numElements(path) + 5 <= MaxElements
        /\ TwinCall(LAMBDA p : quadraticTo(p, c[1], c[2], pt[1], pt[2]),
                    "quadraticTo", c \o pt)

TwinCubicTo ==
    \E c1 \in CtrlPts, c2 \in CtrlPts, pt \in Pts :
        /\ numElements(path) + 7 <= MaxElements
        /\ TwinCall(LAMBDA p : cubicTo(p, c1[1], c1[2], c2[1], c2[2], pt[1], pt[2]),
                    "cubicTo", c1 \o c2 \o pt)

TwinCloseSubPath ==
    /\ numElements(path) + 1 <= MaxElements
    /\ TwinCall(closeSubPath, "closeSubPath", <<>>)

TwinAddRectangle ==
    \E o \in RectOrigins, s \in RectSizes :
        /\ numElements(path) <= MaxRectBase
        /\ TwinCall(LAMBDA p : addRectangle(p, o[1], o[2], s[1], s[2]),
                    "addRectangle", o \o s)

TwinSetUsingNonZeroWinding ==
    \E b \in BOOLEAN :
        /\ b # path.useNonZeroWinding
        /\ TwinCall(LAMBDA p : setUsingNonZeroWinding(p, b),
                    "setUsingNonZeroWinding", <<>>)

\* path.clear(); Path saved;
TwinClear ==
    /\ numElements(path) > 0
    /\ path' = clear(path)
    /\ saved' = NewPath
    /\ op' = [name |-> "clear", args |-> <<>>]
    /\ result' = <<>>
    /\ UNCHANGED <<xs, ys, stream, text, call, web>>

NextClear ==
    \/ TwinStartNewSubPath
    \/ TwinLineTo
    \/ TwinQuadraticTo
    \/ TwinCubicTo
    \/ TwinCloseSubPath
    \/ TwinAddRectangle
    \/ TwinSetUsingNonZeroWinding
    \/ TwinClear

SpecClear == Init /\ [][NextClear]_vars

-----------------------------------------------------------------------------
(* Stars.  Vertex k of a star lies at its radius from the centre in one of *)
(* the four axis directions, taken in turn (the directions of a star of    *)
(* two points that starts at angle 0); with radius 0 it is the centre.     *)

MaxStarBase == 7

StarPoints == { -1, 0, 1, 2, 3, 5 }

StarCentres == { <<0, 0>>, <<0, closeSubPathMarker>> }

StarRadii == { 0, 4 * Unit }

Directions == << <<0, -1>>, <<1, 0>>, <<0, 1>>, <<-1, 0>> >>

StarVertex(centre, radius, k) ==
    << centre[1] + radius * Directions[(k % 4) + 1][1],
       centre[2] + radius * Directions[(k % 4) + 1][2] >>

AddStar ==
    \E numberOfPoints \in StarPoints, centre \in StarCentres,
       innerRadius \in StarRadii :
        LET outerRadius == 10 * Unit
            outer == [i \in 1..numberOfPoints |->
                         StarVertex(centre, outerRadius, 2 * (i - 1))]
            inner == [i \in 1..numberOfPoints |->
                         StarVertex(centre, innerRadius, 2 * (i - 1) + 1)]
        IN  /\ numElements(path) <= MaxStarBase
            /\ path' = addStar(path, numberOfPoints, outer, inner)
            /\ op' = [name |-> "addStar",
                      args |-> <<numberOfPoints, centre[1], centre[2],
                                 innerRadius, outerRadius>>]
            /\ xs' = {path'.pathXMin, path'.pathXMax}
            /\ ys' = {path'.pathYMin, path'.pathYMax}
            /\ result' = <<>>
            /\ UNCHANGED serial

NextStar ==
    \/ StartNewSubPathAt(ArcPts, MaxStarBase)
    \/ LineToAt(ArcPts, MaxStarBase)
    \/ CloseSubPathUpTo(MaxStarBase)
    \/ Clear
    \/ AddStar

SpecStar == Init /\ [][NextStar]_vars


-----------------------------------------------------------------------------
(* Two paths: one is built and put aside by swapWithPath, the other is     *)
(* built and receives the first through addPath.                           *)

\* Largest number of store elements a builder step may reach before addPath.
MaxAddElements == 8

AddPts == { <<0, 0>>, <<Unit, 5 * Unit>> }

AddCtrlPts == { <<-Unit, 2 * Unit>> }

\* The identity, the translation by (0, 100000), a scale with a
\* translation, and a shear.
AddTransforms ==
    { identity,
      translation(Num(0), Num(closeSubPathMarker - 5 * Unit)),
      translated(scaled(identity, Num(2), Num(2)), Num(Unit), Num(-Unit)),
      [identity EXCEPT !.mat01 = Half, !.mat02 = Num(5 * Unit)] }

\* path.swapWithPath (saved)
SwapWithPath ==
    /\ path # saved
    /\ path' = saved
    /\ saved' = path
    /\ op' = [name |-> "swapWithPath", args |-> <<>>]
    /\ xs' = IF numElements(saved) = 0 THEN {} ELSE {saved.pathXMin, saved.pathXMax}
    /\ ys' = IF numElements(saved) = 0 THEN {} ELSE {saved.pathYMin, saved.pathYMax}
    /\ result' = <<>>
    /\ UNCHANGED <<stream, text, call, web>>

\* path.addPath (saved, t)
AddPathTransformed ==
    \E t \in AddTransforms :
        /\ numElements(path) <= MaxShapeBase
        /\ numElements(saved) > 0
        /\ path' = addPathTransformed(path, saved, t)
        /\ op' = [name |-> "addPath", args |-> <<t>>]
        /\ xs' = {path'.pathXMin, path'.pathXMax}
        /\ ys' = {path'.pathYMin, path'.pathYMax}
        /\ result' = <<>>
        /\ UNCHANGED serial

NextAdd ==
    \/ StartNewSubPathAt(AddPts, MaxAddElements)
    \/ LineToAt(AddPts, MaxAddElements)
    \/ QuadraticToAt(AddCtrlPts, AddPts, MaxAddElements)
    \/ CubicToAt(AddCtrlPts, AddPts, MaxAddElements + 2)
    \/ CloseSubPathUpTo(MaxAddElements)
    \/ SetUsingNonZeroWinding
    \/ numElements(saved) = 0 /\ SwapWithPath
    \/ AddPath
    \/ AddPathTransformed

SpecAdd == Init /\ [][NextAdd]_vars


-----------------------------------------------------------------------------
(* Clipping a query line against a polygon.                                *)

\* Largest number of store elements a polygon to clip against may reach.
MaxClipElements == 10

\* End points of the query lines: points inside and outside the polygons.
LinePts == { <<Unit, Unit>>, <<2 * Unit, 3 * Unit>>, <<3 * Unit, Unit>>,
             <<5 * Unit, 2 * Unit>>, <<-Unit, 3 * Unit>>, <<2 * Unit, 5 * Unit>> }

GetClippedLine ==
    \E a \in LinePts, b \in LinePts, keepSectionOutsidePath \in BOOLEAN :
        /\ op.name # "getClippedLine"
        /\ result' = <<getClippedLine(path, a \o b, keepSectionOutsidePath)>>
        /\ op' = [name |-> "getClippedLine",
                  args |-> a \o b \o <<Flag(keepSectionOutsidePath)>>]
        /\ UNCHANGED <<path, xs, ys, serial>>

NextClip ==
    \/ StartNewSubPathAt(GeomPts, MaxClipElements)
    \/ LineToAt(GeomPts, MaxClipElements)
    \/ CloseSubPathUpTo(MaxClipElements)
    \/ SetUsingNonZeroWinding
    \/ GetClippedLine

SpecClip == Init /\ [][NextClip]_vars


-----------------------------------------------------------------------------
(* Two paths written one after the other into one stream, then read back   *)
(* into two new paths.  saved is the path as first written, path the path  *)
(* as written second, stream the bytes not yet read, result the paths      *)
(* loaded so far.                                                          *)

\* Largest number of store elements a builder step may reach before a write.
MaxConcatElements == 6

\* Coordinates whose bytes hold the value of 'e' (101 and 101 + 256 * 101),
\* and one with the value of the close marker.
StreamPts == { <<0, 0>>, <<101, 25957>>, <<Unit, closeSubPathMarker>> }

\* Both paths have been written.
BothWritten == stream # <<>> /\ stream # writePathToStream(saved)

\* Neither path has been read and the second is not yet written.
Writing == result = <<>> /\ ~BothWritten /\ op.name # "loadPathFromStream"

\* path.writePathToStream (out) on the stream that holds the first path
WriteNextPathToStream ==
    /\ Writing
    /\ stream # <<>>
    /\ stream' = stream \o writePathToStream(path)
    /\ op' = [name |-> "writePathToStream", args |-> <<>>]
    /\ result' = <<>>
    /\ UNCHANGED <<path, xs, ys, text, saved, call, web>>

\* Path q; q.loadPathFromStream (in): the source is left after the last
\* byte read.
LoadNextPathFromStream ==
    /\ \/ result = <<>> /\ BothWritten
       \/ Len(result) = 1
    /\ LET r == loadFrom(NewPath, stream, 1)
       IN  /\ result' = Append(result, r.path)
           /\ stream' = SubSeq(stream, r.pos, Len(stream))
    /\ op' = [name |-> "loadPathFromStream", args |-> <<>>]
    /\ UNCHANGED <<path, xs, ys, text, saved, call, web>>

NextConcat ==
    \/ Writing /\ StartNewSubPathAt(StreamPts, MaxConcatElements)
    \/ Writing /\ LineToAt(StreamPts, MaxConcatElements)
    \/ Writing /\ CloseSubPathUpTo(MaxConcatElements + 1)
    \/ Writing /\ AddRectangleOf(RectOrigins, RectSizes, 0)
    \/ Writing /\ Clear
    \/ Writing /\ SetUsingNonZeroWinding
    \/ Writing /\ WritePathToStream
    \/ WriteNextPathToStream
    \/ LoadNextPathFromStream

SpecConcat == Init /\ [][NextConcat]_vars


-----------------------------------------------------------------------------
(* addPath one loop iteration at a time, the argument being the second     *)
(* object or the receiver itself.  No other call is made on the two        *)
(* objects while the call is in progress.                                  *)

\* Largest number of store elements a builder step may reach before addPath.
MaxSelfBase == 7

\* Largest number of store elements up to which the loop is followed.
MaxSelfElements == 24

Idle == call = NoCall

\* path.addPath (saved) or path.addPath (path): entry
AddPathEnter ==
    \E other \in {"path", "saved"} :
        /\ Idle
        /\ op.name # "addPath"
        /\ call' = addPathEntry(path, other, IF other = "path" THEN path ELSE saved)
        /\ op' = [name |-> "addPath", args |-> <<other>>]
        /\ result' = <<>>
        /\ UNCHANGED <<path, xs, ys, stream, text, saved, web>>

\* One iteration of the while loop.
AddPathLoop ==
    LET other == IF call.other = "path" THEN path ELSE saved
    IN  /\ ~Idle
        /\ addPathContinues(call, path, saved)
        /\ numElements(path) + 7 <= MaxSelfElements
        /\ path' = addPathIteration(path, other.elements, call.i)
        /\ call' = [call EXCEPT !.i = @ + 1 + numCoordsOf(other.elements[@ + 1])]
        /\ xs' = {path'.pathXMin, path'.pathXMax}
        /\ ys' = {path'.pathYMin, path'.pathYMax}
        /\ UNCHANGED <<op, result, stream, text, saved, web>>

\* The loop condition fails and the call returns.
AddPathReturn ==
    /\ ~Idle
    /\ ~addPathContinues(call, path, saved)
    /\ call' = NoCall
    /\ result' = <<call.before, call.held>>
    /\ UNCHANGED <<path, op, xs, ys, stream, text, saved, web>>

NextSelf ==
    \/ Idle /\ StartNewSubPathAt(ArcPts, MaxSelfBase)
    \/ Idle /\ LineToAt(ArcPts, MaxSelfBase)
    \/ Idle /\ QuadraticToAt(ArcCtrlPts, ArcPts, MaxSelfBase + 1)
    \/ Idle /\ CloseSubPathUpTo(MaxSelfBase)
    \/ Idle /\ numElements(saved) = 0 /\ SwapWithPath
    \/ AddPathEnter
    \/ AddPathLoop
    \/ AddPathReturn

SpecSelf == Init /\ [][NextSelf]_vars


-----------------------------------------------------------------------------
(* Every call that writes a store: the builder calls, the shape            *)
(* constructors, addPath, clear, swapWithPath, the two readers,            *)
(* createPathWithRoundedCorners (its result is the new path) and, last,    *)
(* applyTransform.                                                         *)

\* Largest number of store elements a builder step may reach here.
MaxStoreElements == 10

NextStore ==
    \/ Untransformed /\ StartNewSubPathAt(ArcPts, MaxStoreElements)
    \/ Untransformed /\ LineToAt(ArcPts, MaxStoreElements)
    \/ Untransformed /\ QuadraticToAt(ArcCtrlPts, ArcPts, MaxStoreElements - 2)
    \/ Untransformed /\ CubicToAt(ArcCtrlPts, ArcPts, MaxStoreElements - 3)
    \/ Untransformed /\ CloseSubPathUpTo(MaxStoreElements)
    \/ Untransformed /\ AddRectangleOf(RectOrigins, RectSizes, 0)
    \/ Untransformed /\ AddTriangle
    \/ Untransformed /\ Clear
    \/ Untransformed /\ numElements(saved) = 0
                     /\ numElements(path) <= MaxShapeBase /\ SwapWithPath
    \/ Untransformed /\ AddPath
    \/ Untransformed /\ LoadAnyStream
    \/ Untransformed /\ RestoreAnyString
    \/ Untransformed /\ CreatePathWithRoundedCorners
    \/ ApplyTransform

SpecStore == Init /\ [][NextStore]_vars


-----------------------------------------------------------------------------
(* Rounding the corners of paths of either winding rule.                   *)

\* Largest number of store elements a builder step may reach here.
MaxWindingElements == 10

NextWinding ==
    \/ StartNewSubPathAt(RoundPts, MaxWindingElements)
    \/ LineToAt(RoundPts, MaxWindingElements)
    \/ QuadraticToAt(RoundCtrlPts, RoundPts, MaxWindingElements)
    \/ CloseSubPathUpTo(MaxWindingElements)
    \/ SetUsingNonZeroWinding
    \/ CreatePathWithRoundedCorners

SpecWinding == Init /\ [][NextWinding]_vars


-----------------------------------------------------------------------------
(* Bubbles: a rectangle of either orientation, three corner sizes, the     *)
(* tail on each side at five positions and of two widths.  Each corner arc *)
(* is given by its end point.                                              *)

\* Largest number of store elements addBubble may start from.
MaxBubbleBase == 3

BubbleSizes == { <<100 * Unit, 50 * Unit>>, <<50 * Unit, 100 * Unit>>,
                 <<Unit, 50 * Unit>> }

CornerSizes == { 0, 10 * Unit, 40 * Unit }

ArrowPositions == { Num(0), Rat(1, 4), Half, Rat(3, 4), Num(1) }

ArrowWidths == { 20 * Unit, 200 * Unit }

\* The end points of the four corner arcs of a bubble at the origin.
CornerArcs(w, h, cs) ==
    << <<<<w, cs>>>>, <<<<w - cs, h>>>>, <<<<0, h - cs>>>>, <<<<cs, 0>>>> >>

AddBubble ==
    \E size \in BubbleSizes, cs \in CornerSizes, whichSide \in 0..3,
       arrowPos \in ArrowPositions, arrowWidth \in ArrowWidths :
        /\ numElements(path) <= MaxBubbleBase
        /\ op.name # "addBubble"
        /\ path' = addBubble(path, 0, 0, size[1], size[2], cs, 50 * Unit, -20 * Unit,
                             whichSide, arrowPos, arrowWidth,
                             CornerArcs(size[1], size[2],
                                        jmin(cs, jmin(size[1], size[2]) \div 2)))
        /\ op' = [name |-> "addBubble",
                  args |-> <<size[1], size[2], cs, whichSide, arrowPos, arrowWidth>>]
        /\ xs' = {path'.pathXMin, path'.pathXMax}
        /\ ys' = {path'.pathYMin, path'.pathYMax}
        /\ result' = <<>>
        /\ UNCHANGED serial

NextBubble ==
    \/ StartNewSubPathAt(AddPts, MaxBubbleBase)
    \/ Clear
    \/ AddBubble

SpecBubble == Init /\ [][NextBubble]_vars


-----------------------------------------------------------------------------
(* The web browser component: its calls and the events of its window.      *)
(* Every call starts with nothing issued; an event happens with the        *)
(* component showing or not, as Component::isShowing then reports.         *)

Urls == { <<>>, <<"http://a">>, aboutBlank }

HeaderLists == { nullptr, AddressOf(<<>>), AddressOf(<<"Accept: text/html">>) }

PostData == { nullptr, AddressOf(<<>>), AddressOf(<<1, 2>>) }

\* The component at the start of a call.
Called(w) == [w EXCEPT !.issued = <<>>]

\* What a call on the component leaves alone.
paths == <<path, result, xs, ys, stream, text, saved, call>>

\* The state after construction of a component, with either argument.
InitWeb ==
    /\ \E unloadPageWhenBrowserIsHidden_ \in BOOLEAN :
           /\ web = WebBrowserComponent(unloadPageWhenBrowserIsHidden_)
           /\ op = [name |-> "WebBrowserComponent",
                    args |-> <<unloadPageWhenBrowserIsHidden_>>]
    /\ path = NewPath
    /\ result = <<>>
    /\ xs = {}
    /\ ys = {}
    /\ stream = <<>>
    /\ text = <<>>
    /\ saved = NewPath
    /\ call = NoCall

GoToURL ==
    \E url \in Urls, headers \in HeaderLists, postData \in PostData :
        /\ web' = goToURL(Called(web), AddressOf(url), headers, postData)
        /\ op' = [name |-> "goToURL", args |-> <<url, headers, postData>>]
        /\ UNCHANGED paths

GoBack ==
    /\ web' = goBack(Called(web))
    /\ op' = [name |-> "goBack", args |-> <<>>]
    /\ UNCHANGED paths

GoForward ==
    /\ web' = goForward(Called(web))
    /\ op' = [name |-> "goForward", args |-> <<>>]
    /\ UNCHANGED paths

Refresh ==
    /\ web' = refresh(Called(web))
    /\ op' = [name |-> "refresh", args |-> <<>>]
    /\ UNCHANGED paths

ReloadLastURL ==
    /\ web' = reloadLastURL(Called(web))
    /\ op' = [name |-> "reloadLastURL", args |-> <<>>]
    /\ UNCHANGED paths

ParentHierarchyChanged ==
    \E isShowing \in BOOLEAN :
        /\ web' = checkWindowAssociation([Called(web) EXCEPT !.showing = isShowing])
        /\ op' = [name |-> "parentHierarchyChanged", args |-> <<isShowing>>]
        /\ UNCHANGED paths

VisibilityChanged ==
    \E isShowing \in BOOLEAN :
        /\ web' = checkWindowAssociation([Called(web) EXCEPT !.showing = isShowing])
        /\ op' = [name |-> "visibilityChanged", args |-> <<isShowing>>]
        /\ UNCHANGED paths

NextWeb ==
    \/ GoToURL
    \/ GoBack
    \/ GoForward
    \/ Refresh
    \/ ReloadLastURL
    \/ ParentHierarchyChanged
    \/ VisibilityChanged

SpecWeb == InitWeb /\ [][NextWeb]_vars

-----------------------------------------------------------------------------
(* Properties. *)

HasSegment(e) == \E k \in 1..Len(Records(e)) : IsSegment(Records(e)[k][1])

LastRecordIsClose(e) ==
    Len(e) > 0 /\ Records(e)[Len(Records(e))][1] = closeSubPathMarker

MarkerOf(name) ==
    IF name = "lineTo" THEN lineMarker
    ELSE IF name = "quadraticTo" THEN quadMarker
    ELSE cubicMarker

\* C1: after any sequence of builder calls on a new or just-cleared path the
\* cached bounding box is the exact minimum and maximum over every x and
\* every y appended since then, the implicit move to (0,0) included.
C1_BoundsExact ==
    xs # {} =>
        /\ path.pathXMin = SetMin(xs)
        /\ path.pathXMax = SetMax(xs)
        /\ path.pathYMin = SetMin(ys)
        /\ path.pathYMax = SetMax(ys)

\* A quad appended to an empty store: the implicit origin lies strictly
\* inside the box spanned by the control point and the end point.
C1_Witness ==
    /\ op.name = "quadraticTo"
    /\ numElements(path) = 8
    /\ path.pathXMin = -Unit /\ path.pathXMax = 3001
    /\ path.pathYMin = -2001 /\ path.pathYMax = 5 * Unit

\* C8: closeSubPath appends exactly one close record whenever the last
\* record of the store is not a close record, whatever the coordinates of
\* that record are, and leaves the store unchanged when it is one.
C8_CloseAppendsUnlessLastRecordIsClose ==
    [][(op'.name = "closeSubPath" /\ numElements(path) > 0) =>
          path'.elements = IF LastRecordIsClose(path.elements)
                           THEN path.elements
                           ELSE Append(path.elements, closeSubPathMarker)]_vars

\* C9: lineTo, quadraticTo and cubicTo on a store with no records leave
\* exactly move (0,0) followed by the requested record; on a store with
\* records they append exactly the requested record.
C9_ImplicitMoveOnlyWhenEmpty ==
    [][op'.name \in {"lineTo", "quadraticTo", "cubicTo"} =>
          path'.elements =
              (IF numElements(path) = 0 THEN <<moveMarker, 0, 0>>
                                        ELSE path.elements)
              \o <<MarkerOf(op'.name)>> \o op'.args]_vars

\* lineTo has just been applied to a store with no records.
C9_Witness ==
    /\ op.name = "lineTo"
    /\ numElements(path) = 6
    /\ path.elements[1] = moveMarker

\* C10: isEmpty returns true iff the store holds no line, quad or cubic
\* record; move and close records alone report empty, whatever the values
\* of the move coordinates.
C10_IsEmptyIffNoSegment ==
    op.name = "isEmpty" => result = <<~HasSegment(path.elements)>>

\* isEmpty answered true on a move whose coordinates have the values of the
\* line and move markers, followed by a close.
C10_Witness ==
    /\ op.name = "isEmpty"
    /\ result = <<TRUE>>
    /\ path.elements = <<moveMarker, lineMarker, moveMarker, closeSubPathMarker>>

\* C2: a path built by builder calls, written with writePathToStream and
\* read with loadPathFromStream into a new path, comes back with the same
\* records in the same order, the same coordinates and the same winding flag.
C2_BinaryRoundTrip ==
    op.name = "loadPathFromStream" =>
        /\ path.elements = saved.elements
        /\ path.useNonZeroWinding = saved.useNonZeroWinding

\* Largest distance between a coordinate and its 3-decimal text: half a
\* step of the last decimal place.
RoundingError == UnitsPerStep \div 2

Dist(a, b) == IF a < b THEN b - a ELSE a - b

\* C3: restoreFromString (toString (path)) yields the same sequence of
\* record types and the same winding flag as the path, each coordinate
\* within 3-decimal rounding of the original.
C3_TextRoundTrip ==
    op.name = "restoreFromString" =>
        /\ RecordTypes(path.elements) = RecordTypes(saved.elements)
        /\ path.useNonZeroWinding = saved.useNonZeroWinding
        /\ numElements(path) = numElements(saved)
        /\ \A i \in 1..numElements(saved) :
               Dist(path.elements[i], saved.elements[i]) <= RoundingError

\* The edge tests of C4, written as the claim words them.
CountedEdge(edge, x, y) ==
    /\ \/ edge[2] <= y /\ y < edge[4]
       \/ edge[4] <= y /\ y < edge[2]
    /\ LET dy == edge[4] - edge[2]
           lhs == (edge[3] - edge[1]) * (y - edge[2])
           rhs == (x - edge[1]) * dy
       IN  (dy > 0 /\ lhs <= rhs) \/ (dy < 0 /\ lhs >= rhs)

InsideBounds(p, x, y) ==
    p.pathXMin < x /\ x < p.pathXMax /\ p.pathYMin < y /\ y < p.pathYMax

\* Edges k and k+1 meet in a vertex on the scanline y and both go up or
\* both go down.
SharedVertexOnScanline(edges, k, y) ==
    /\ edges[k][3] = edges[k + 1][1]
    /\ edges[k][4] = edges[k + 1][2]
    /\ edges[k][4] = y
    /\ \/ edges[k][2] < y /\ y < edges[k + 1][4]
       \/ edges[k][2] > y /\ y > edges[k + 1][4]

\* C4: for a point that passes the bounding-box test, contains counts an
\* edge exactly when y1 <= y < y2 or y2 <= y < y1 and its intersection with
\* the scanline is at or left of x, positive when y1 < y2 and negative
\* otherwise; even-odd answers whether the total is odd, non-zero whether
\* the two counts differ.  A vertex on the scanline shared by two
\* consecutive edges of the same vertical direction is counted for exactly
\* one of them.
C4_ContainsCountsCrossings ==
    op.name = "contains" =>
        LET x == op.args[1]
            y == op.args[2]
            edges == flattenedEdges(path)
            pos == Cardinality({k \in 1..Len(edges) :
                       CountedEdge(edges[k], x, y) /\ edges[k][2] < edges[k][4]})
            neg == Cardinality({k \in 1..Len(edges) :
                       CountedEdge(edges[k], x, y) /\ ~(edges[k][2] < edges[k][4])})
        IN  /\ InsideBounds(path, x, y) =>
                   result = <<IF path.useNonZeroWinding THEN pos # neg
                                                        ELSE (pos + neg) % 2 = 1>>
            /\ \A k \in 1..(Len(edges) - 1) :
                   SharedVertexOnScanline(edges, k, y) =>
                       crossesScanline(edges[k], y) # crossesScanline(edges[k + 1], y)

\* A query inside the bounds whose scanline runs through a vertex shared by
\* two edges that both go up, the vertex lying left of the point; the point
\* is reported inside.
C4_Witness ==
    /\ op.name = "contains"
    /\ result = <<TRUE>>
    /\ InsideBounds(path, op.args[1], op.args[2])
    /\ \E k \in 1..(Len(flattenedEdges(path)) - 1) :
           /\ SharedVertexOnScanline(flattenedEdges(path), k, op.args[2])
           /\ flattenedEdges(path)[k][2] < op.args[2]
           /\ flattenedEdges(path)[k][3] < op.args[1]

\* The store holds the five records of one addRectangle from element b + 1 on.
IsRectangleAt(e, b) ==
    /\ Len(e) >= b + 13
    /\ e[b + 1] = moveMarker /\ e[b + 4] = lineMarker /\ e[b + 7] = lineMarker
    /\ e[b + 10] = lineMarker /\ e[b + 13] = closeSubPathMarker

\* (x, y) lies strictly inside the rectangle stored from element b + 1 on,
\* which has a non-zero width and height.
StrictlyInsideRectangleAt(e, b, x, y) ==
    /\ jmin(e[b + 2], e[b + 8]) < x /\ x < jmax(e[b + 2], e[b + 8])
    /\ jmin(e[b + 3], e[b + 6]) < y /\ y < jmax(e[b + 3], e[b + 6])

\* C5: in a path holding a single addRectangle (x, y, w, h) with non-zero w
\* and h, contains is true for every point strictly inside the rectangle and
\* false for every point outside it, under either winding rule; in a path
\* whose bounding box has zero width or height contains is false everywhere.
C5_RectangleContainment ==
    op.name = "contains" =>
        LET x == op.args[1]
            y == op.args[2]
        IN  /\ (numElements(path) = 13 /\ IsRectangleAt(path.elements, 0)
                  /\ Cardinality(xs) = 2 /\ Cardinality(ys) = 2) =>
                   /\ (SetMin(xs) < x /\ x < SetMax(xs)
                         /\ SetMin(ys) < y /\ y < SetMax(ys)) => result = <<TRUE>>
                   /\ (x < SetMin(xs) \/ x > SetMax(xs)
                         \/ y < SetMin(ys) \/ y > SetMax(ys)) => result = <<FALSE>>
            /\ (path.pathXMax = path.pathXMin \/ path.pathYMax = path.pathYMin) =>
                   result = <<FALSE>>

\* The rectangle (0, 0, 10, 5) asked about (5, 2.5) under the even-odd rule.
C5_Witness ==
    /\ op = [name |-> "contains", args |-> <<5 * Unit, 5 * (Unit \div 2)>>]
    /\ result = <<TRUE>>
    /\ ~path.useNonZeroWinding
    /\ xs = {10 * Unit, 0}
    /\ path.elements = <<moveMarker, 0, 5 * Unit, lineMarker, 0, 0,
                         lineMarker, 10 * Unit, 0, lineMarker, 10 * Unit, 5 * Unit,
                         closeSubPathMarker>>

\* The path is two rectangles and (x, y) lies strictly inside both.
InOverlapOfTwoRectangles(p, x, y) ==
    /\ numElements(p) = 26
    /\ IsRectangleAt(p.elements, 0)
    /\ IsRectangleAt(p.elements, 13)
    /\ StrictlyInsideRectangleAt(p.elements, 0, x, y)
    /\ StrictlyInsideRectangleAt(p.elements, 13, x, y)

NoTwoCloses(e) ==
    \A k \in 1..(Len(Records(e)) - 1) :
        ~(Records(e)[k][1] = closeSubPathMarker
            /\ Records(e)[k + 1][1] = closeSubPathMarker)

\* C7: in every state reached through builder calls, shape constructors,
\* addPath, loadPathFromStream and restoreFromString the store never holds
\* two close records directly after one another.
C7_NoTwoClosesInARow ==
    NoTwoCloses(path.elements) /\ NoTwoCloses(saved.elements)

\* addPieSegment for a full circle without inner circle has called
\* closeSubPath twice in a row.
C7_Witness ==
    /\ op = [name |-> "addPieSegment", args |-> <<1, 0>>]
    /\ LastRecordIsClose(path.elements)

\* The position the path is at: the point of the most recent move record
\* before a final close, else the end point of the last record.
RECURSIVE LastMoveBefore(_, _)
LastMoveBefore(recs, k) ==
    IF k = 0 THEN <<0, 0>>
    ELSE IF recs[k][1] = moveMarker THEN <<recs[k][2], recs[k][3]>>
    ELSE LastMoveBefore(recs, k - 1)

CurrentPoint(e) ==
    LET recs == Records(e)
        last == recs[Len(recs)]
    IN  IF last[1] = closeSubPathMarker THEN LastMoveBefore(recs, Len(recs))
        ELSE <<last[Len(last) - 1], last[Len(last)]>>

\* C11: on every store with records getCurrentPosition returns the point of
\* the most recent move before the final close when the last record is a
\* close, and otherwise the end point of the last record.
C11_CurrentPosition ==
    (op.name = "getCurrentPosition" /\ numElements(path) > 0)
        => result = CurrentPoint(path.elements)

\* C12: on a store without records getCurrentPosition returns (0, 0) and
\* reads no element outside [0, numElements).
C12_CurrentPositionOfEmptyStore ==
    (op.name = "getCurrentPosition" /\ numElements(path) = 0)
        => (result = <<0, 0>> /\ op.args = <<0>>)

\* C13: addRectangle appends exactly move, line, line, line, close, and
\* leaves the path as the call with the opposite corner and negated sizes
\* on the same starting path does.
C13_AddRectangleOrientation ==
    [][ op'.name = "addRectangle" =>
            LET a == op'.args
                n == numElements(path)
            IN  /\ numElements(path') = n + 13
                /\ SubSeq(path'.elements, 1, n) = path.elements
                /\ RecordTypes(SubSeq(path'.elements, n + 1, n + 13))
                       = << moveMarker, lineMarker, lineMarker, lineMarker,
                            closeSubPathMarker >>
                /\ path' = addRectangle(path, a[1] + a[3], a[2] + a[4],
                                        -a[3], -a[4]) ]_vars

\* addRectangle with negative width and height has been called.
C13_Witness ==
    /\ op.name = "addRectangle"
    /\ op.args[3] < 0
    /\ op.args[4] < 0
    /\ path.pathXMin = op.args[1] + op.args[3]
    /\ path.pathYMin = op.args[2] + op.args[4]

FitCall == op.name = "getTransformToScaleToFit"

FiniteTransform(t) ==
    /\ IsFinite(t.mat00) /\ IsFinite(t.mat01) /\ IsFinite(t.mat02)
    /\ IsFinite(t.mat10) /\ IsFinite(t.mat11) /\ IsFinite(t.mat12)

DegenerateFit ==
    \/ op.args[3] <= 0
    \/ op.args[4] <= 0
    \/ path.pathXMax = path.pathXMin
    \/ path.pathYMax = path.pathYMin

\* C14: getTransformToScaleToFit returns the identity when the target width
\* or height is not positive or the source bounds have no width or height,
\* with and without preserveProportions, and never divides by zero.
C14_DegenerateFitIsIdentity ==
    FitCall => /\ DegenerateFit => result = identity
               /\ FiniteTransform(result)

RMin(a, b) == IF RGreater(a, b) THEN b ELSE a

\* C15: with preserveProportions and no degenerate input both axes are
\* scaled by min (w / boundsWidth, h / boundsHeight); the image of the
\* source bounds lies in the target rectangle, fills it on the limiting
\* axis and is flush left/top, flush right/bottom or centred on the other.
C15_ProportionalFit ==
    (FitCall /\ op.args[5] = 1 /\ ~DegenerateFit) =>
        LET x == Num(op.args[1])
            y == Num(op.args[2])
            w == Num(op.args[3])
            h == Num(op.args[4])
            j == op.args[6]
            b == getBounds(path)
            scale == RMin(RDiv(w, Num(b.w)), RDiv(h, Num(b.h)))
            lo == transformPoint(result, Num(b.x), Num(b.y))
            hi == transformPoint(result, Num(b.x + b.w), Num(b.y + b.h))
            spareX == RSub(w, RSub(hi[1], lo[1]))
            spareY == RSub(h, RSub(hi[2], lo[2]))
        IN  /\ result.mat00 = scale /\ result.mat11 = scale
            /\ result.mat01 = Num(0) /\ result.mat10 = Num(0)
            /\ ~RGreater(Num(0), spareX) /\ ~RGreater(Num(0), spareY)
            /\ spareX = Num(0) \/ spareY = Num(0)
            /\ RSub(lo[1], x) =
                   IF "left" \in j THEN Num(0)
                   ELSE IF "right" \in j THEN spareX
                   ELSE RMul(spareX, Half)
            /\ RSub(lo[2], y) =
                   IF "top" \in j THEN Num(0)
                   ELSE IF "bottom" \in j THEN spareY
                   ELSE RMul(spareY, Half)

\* Bounds (0, 0, 10, 20) into (0, 0, 100, 100), centred: scale 5, x from 25
\* to 75, y from 0 to 100.
C15_Witness ==
    /\ FitCall
    /\ op.args = <<0, 0, 100 * Unit, 100 * Unit, 1,
                   {"horizontallyCentred", "verticallyCentred"}>>
    /\ getBounds(path) = [x |-> 0, y |-> 0, w |-> 10 * Unit, h |-> 20 * Unit]
    /\ result.mat00 = Num(5)
    /\ transformPoint(result, Num(0), Num(0)) = <<Num(25 * Unit), Num(0)>>
    /\ transformPoint(result, Num(10 * Unit), Num(20 * Unit))
           = <<Num(75 * Unit), Num(100 * Unit)>>

RoundCall == op.name = "createPathWithRoundedCorners"

IsCurve(type) == type = quadMarker \/ type = cubicMarker

CurveRecords(e) == SelectSeq(Records(e), LAMBDA r : IsCurve(r[1]))

RECURSIVE IsSubsequence(_, _)
IsSubsequence(a, b) ==
    IF a = <<>> THEN TRUE
    ELSE IF b = <<>> THEN FALSE
    ELSE IF Head(a) = Head(b) THEN IsSubsequence(Tail(a), Tail(b))
    ELSE IsSubsequence(a, Tail(b))

\* C16: with a radius above 0.01 createPathWithRoundedCorners copies every
\* quad and cubic record of the input to the output, in order and with all
\* of its coordinates unchanged.
C16_CurvesCopiedUnchanged ==
    (RoundCall /\ ~tooSmallToRound(op.args[1])) =>
        IsSubsequence(CurveRecords(path.elements), CurveRecords(result.elements))

\* The vertices of a path that is one closed polygon: move, k >= 2 lines and
\* close, consecutive vertices distinct and the last distinct from the first;
\* <<>> for any other path.
PolygonVertices(e) ==
    LET recs == Records(e)
        k == Len(recs) - 2
        v == [i \in 1..(k + 1) |-> <<recs[i][2], recs[i][3]>>]
    IN  IF /\ k >= 2
           /\ recs[1][1] = moveMarker
           /\ \A i \in 2..(k + 1) : recs[i][1] = lineMarker
           /\ recs[k + 2] = <<closeSubPathMarker>>
           /\ \A i \in 1..k : v[i] # v[i + 1]
           /\ v[k + 1] # v[1]
        THEN v
        ELSE <<>>

\* The point at the fraction min (0.5, r / length) of the edge from v to u.
FilletPoint(v, u, r) ==
    LET len == juce_hypot(u[1] - v[1], u[2] - v[2])
        fraction == IF 2 * r >= len THEN Half ELSE Rat(r, len)
    IN  <<alongEdge(v[1], u[1], fraction), alongEdge(v[2], u[2], fraction)>>

\* The line and the quad that replace vertex j of the polygon v.
RoundedVertex(v, j, r) ==
    LET n == Len(v)
        prev == v[((j + n - 2) % n) + 1]
        next == v[(j % n) + 1]
        a == FilletPoint(v[j], prev, r)
        b == FilletPoint(v[j], next, r)
    IN  <<lineMarker, a[1], a[2], quadMarker, v[j][1], v[j][2], b[1], b[2]>>

RECURSIVE RoundedVertices(_, _, _)
RoundedVertices(v, j, r) ==
    IF j > Len(v) THEN RoundedVertex(v, 1, r)
    ELSE RoundedVertex(v, j, r) \o RoundedVertices(v, j + 1, r)

RoundedPolygon(v, r) ==
    LET start == FilletPoint(v[1], v[2], r)
    IN  <<moveMarker, start[1], start[2]>> \o RoundedVertices(v, 2, r)
            \o <<closeSubPathMarker>>

\* C17: for one closed polygon and a radius above 0.01 the output is the
\* move, then for each vertex a line and a quad whose control point is the
\* vertex and whose ends lie on the adjacent edges at the fraction
\* min (0.5, r / edge length), then the close; the move is at the end of
\* the quad of the first vertex.
C17_RoundedPolygon ==
    (RoundCall /\ ~tooSmallToRound(op.args[1])
        /\ PolygonVertices(path.elements) # <<>>)
        => result.elements = RoundedPolygon(PolygonVertices(path.elements),
                                            op.args[1])

\* The record r with every coordinate pair replaced by its image under t.
ImageOfRecord(r, t) ==
    [k \in 1..Len(r) |->
        IF k = 1 THEN r[1]
        ELSE IF k % 2 = 0 THEN transformedPoint(t, r[k], r[k + 1])[1]
        ELSE transformedPoint(t, r[k - 1], r[k])[2]]

RECURSIVE Flatten(_)
Flatten(recs) == IF recs = <<>> THEN <<>> ELSE Head(recs) \o Flatten(Tail(recs))

ImageOf(e, t) ==
    Flatten([k \in 1..Len(Records(e)) |-> ImageOfRecord(Records(e)[k], t)])

XsOf(e) ==
    UNION { { r[k] : k \in { j \in 2..Len(r) : j % 2 = 0 } } :
              r \in { Records(e)[n] : n \in 1..Len(Records(e)) } }

YsOf(e) ==
    UNION { { r[k] : k \in { j \in 2..Len(r) : j % 2 = 1 } } :
              r \in { Records(e)[n] : n \in 1..Len(Records(e)) } }

\* C18: applyTransform replaces every coordinate pair by its image, keeps
\* every marker, the order of the records and numElements, and leaves the
\* box equal to the exact minimum and maximum of the new coordinates (all
\* zero for a store without records).
C18_ApplyTransform ==
    op.name = "applyTransform" =>
        /\ path.elements = ImageOf(saved.elements, op.args[1])
        /\ numElements(path) = numElements(saved)
        /\ RecordTypes(path.elements) = RecordTypes(saved.elements)
        /\ path.useNonZeroWinding = saved.useNonZeroWinding
        /\ IF numElements(path) = 0
           THEN /\ path.pathXMin = 0 /\ path.pathXMax = 0
                /\ path.pathYMin = 0 /\ path.pathYMax = 0
           ELSE /\ path.pathXMin = SetMin(XsOf(path.elements))
                /\ path.pathXMax = SetMax(XsOf(path.elements))
                /\ path.pathYMin = SetMin(YsOf(path.elements))
                /\ path.pathYMax = SetMax(YsOf(path.elements))

\* A path with a curve whose images all lie on one side of the origin, so
\* that the box does not contain the origin, and whose box has changed.
C18_Witness ==
    /\ op.name = "applyTransform"
    /\ HasSegment(path.elements)
    /\ quadMarker \in { RecordTypes(path.elements)[k] :
                          k \in 1..Len(RecordTypes(path.elements)) }
    /\ path.pathXMin > 0
    /\ path.pathYMin > 0
    /\ path.pathXMin # saved.pathXMin

SameBounds(p, q) ==
    /\ p.pathXMin = q.pathXMin /\ p.pathXMax = q.pathXMax
    /\ p.pathYMin = q.pathYMin /\ p.pathYMax = q.pathYMax

\* C19: after clear the store has no records and the box is (0, 0, 0, 0),
\* and the calls made afterwards leave the same records and the same box
\* as the same calls on a new path.
C19_ClearedPathIsAsNew ==
    /\ op.name = "clear" =>
           (path.elements = <<>> /\ SameBounds(path, NewPath))
    /\ path.elements = saved.elements
    /\ SameBounds(path, saved)

\* The path was cleared with even-odd winding set (the new path next to it
\* has the winding rule of its construction) and has since been given a
\* move and a segment right of the origin: the first point replaced the
\* zero box.
C19_Witness ==
    /\ path.useNonZeroWinding # saved.useNonZeroWinding
    /\ HasSegment(path.elements)
    /\ path.pathXMin > 0
    /\ path.elements = saved.elements

StarRecordTypes(n) ==
    [k \in 1..(2 * n + 1) |->
        IF k = 1 THEN moveMarker
        ELSE IF k = 2 * n + 1 THEN closeSubPathMarker
        ELSE lineMarker]

\* C20: addStar with numberOfPoints = n >= 2 appends exactly one move,
\* 2n - 1 lines and one close; with n < 2 it appends nothing.
C20_StarRecords ==
    [][ op'.name = "addStar" =>
            LET n == op'.args[1]
                before == numElements(path)
            IN  IF n >= 2
                THEN /\ numElements(path') >= before
                     /\ SubSeq(path'.elements, 1, before) = path.elements
                     /\ RecordTypes(SubSeq(path'.elements, before + 1,
                                           numElements(path')))
                            = StarRecordTypes(n)
                ELSE path' = path ]_vars

\* The box of p is the exact minimum and maximum of the coordinates of its
\* store.
BoxIsExact(p) ==
    /\ p.pathXMin = SetMin(XsOf(p.elements))
    /\ p.pathXMax = SetMax(XsOf(p.elements))
    /\ p.pathYMin = SetMin(YsOf(p.elements))
    /\ p.pathYMax = SetMax(YsOf(p.elements))

\* C21: p.addPath (q) on two distinct paths leaves the store of p equal to
\* its previous elements followed by exactly the records of q in order, the
\* box of p equal to the minimum and maximum over both, q unchanged and the
\* winding flag of p unchanged; p.addPath (q, T) with the identity gives the
\* same as p.addPath (q), and with any T appends the records of q with
\* every coordinate pair mapped through T.
C21_AddPathAppends ==
    [][ op'.name = "addPath" =>
          /\ saved' = saved
          /\ path'.useNonZeroWinding = path.useNonZeroWinding
          /\ path'.elements
               = path.elements \o (IF op'.args = <<>> THEN saved.elements
                                   ELSE ImageOf(saved.elements, op'.args[1]))
          /\ BoxIsExact(path')
          /\ op'.args = <<identity>> => path' = addPath(path, saved) ]_vars

\* The points where the flattened edges of p cross the line.
CrossingPoints(p, line) ==
    { intersects(line, flattenedEdges(p)[k]).intersection :
        k \in { j \in 1..Len(flattenedEdges(p)) :
                  intersects(line, flattenedEdges(p)[j]).hit } }

\* C22: when both ends of the query line have the same containment status,
\* getClippedLine returns the line unchanged if that status is the section
\* the flag asks to keep (both outside and keepSectionOutsidePath, or both
\* inside and not keepSectionOutsidePath) and an empty line otherwise; when
\* the statuses differ, the end that lies in the section not asked for is
\* the one an intersection point replaces, and the other end is kept.
C22_ClippedLine ==
    op.name = "getClippedLine" =>
        LET line == SubSeq(op.args, 1, 4)
            keepOutside == op.args[5] = 1
            startInside == contains(path, line[1], line[2])
            endInside == contains(path, line[3], line[4])
            clipped == result[1]
            hits == CrossingPoints(path, line)
            startUnwanted == IF keepOutside THEN startInside ELSE ~startInside
        IN  IF startInside = endInside
            THEN IF (~startInside /\ keepOutside) \/ (startInside /\ ~keepOutside)
                 THEN clipped = line
                 ELSE clipped = <<0, 0, 0, 0>>
            ELSE IF startUnwanted
            THEN /\ <<clipped[3], clipped[4]>> = <<line[3], line[4]>>
                 /\ IF hits = {} THEN <<clipped[1], clipped[2]>> = <<line[1], line[2]>>
                    ELSE <<clipped[1], clipped[2]>> \in hits
            ELSE /\ <<clipped[1], clipped[2]>> = <<line[1], line[2]>>
                 /\ IF hits = {} THEN <<clipped[3], clipped[4]>> = <<line[3], line[4]>>
                    ELSE <<clipped[3], clipped[4]>> \in hits

\* A line from inside a closed polygon to outside it, clipped to its
\* outside section: the start has moved to the boundary.
C22_Witness ==
    /\ op.name = "getClippedLine"
    /\ op.args[5] = 1
    /\ LastRecordIsClose(path.elements)
    /\ contains(path, op.args[1], op.args[2])
    /\ ~contains(path, op.args[3], op.args[4])
    /\ result[1] # SubSeq(op.args, 1, 4)
    /\ <<result[1][3], result[1][4]>> = <<op.args[3], op.args[4]>>

\* C23: loadPathFromStream consumes the source up to and including the
\* first 'e' byte read as a record tag and nothing after it, so that of two
\* paths written one after the other into one stream the first load leaves
\* exactly the bytes of the second, and the two loads into two new paths
\* restore the two paths.
C23_TwoPathsFromOneStream ==
    op.name = "loadPathFromStream" =>
        /\ Len(result) = 1 => stream = writePathToStream(path)
        /\ Len(result) = 2 => stream = <<>>
        /\ result[1].elements = saved.elements
        /\ result[1].useNonZeroWinding = saved.useNonZeroWinding
        /\ Len(result) = 2 =>
               /\ result[2].elements = path.elements
               /\ result[2].useNonZeroWinding = path.useNonZeroWinding

\* C24: every call p.addPath (other) terminates after appending exactly
\* the records other held when the call began, also when other is p itself:
\* at every point of the loop the elements appended so far are the first i
\* elements other held on entry, and on return they are all of them.
C24_AddPathAppendsWhatOtherHeld ==
    /\ ~Idle =>
           /\ call.i <= Len(call.held)
           /\ path.elements = call.before \o SubSeq(call.held, 1, call.i)
    /\ (Idle /\ op.name = "addPath") => path.elements = result[1] \o result[2]

\* The store e is a concatenation of whole records, each a marker followed
\* by the number of coordinates of its type, and begins with a move if it
\* has any record.
WellFormed(e) ==
    /\ \A k \in 1..Len(Records(e)) :
           /\ Records(e)[k][1] \in {moveMarker, lineMarker, quadMarker, cubicMarker,
                                    closeSubPathMarker}
           /\ Len(Records(e)[k]) = 1 + numCoordsOf(Records(e)[k][1])
    /\ e # <<>> => e[1] = moveMarker

\* C25: in every state reached through builder calls, shape constructors,
\* addPath, applyTransform, clear, swapWithPath, loadPathFromStream,
\* restoreFromString and createPathWithRoundedCorners, the store of every
\* path is a concatenation of well-formed records (2 coordinates after a
\* move or line marker, 4 after quad, 6 after cubic, none after close) that
\* add up to numElements, and begins with a move record if it has any.
C25_StoreIsWellFormed ==
    /\ WellFormed(path.elements)
    /\ WellFormed(saved.elements)
    /\ RoundCall => WellFormed(result.elements)

\* C26: createPathWithRoundedCorners returns a path with the winding flag
\* of the path it is called on, for a radius at or below 0.01 and for a
\* radius above it, and leaves the path it is called on unchanged.
C26_RoundedKeepsWinding ==
    [][ op'.name = "createPathWithRoundedCorners" =>
          /\ path' = path
          /\ result'.useNonZeroWinding = path.useNonZeroWinding ]_vars

\* C27: for a radius above 0.01, createPathWithRoundedCorners reads only
\* store elements at indices below numElements and uses only coordinate
\* slots as coordinates, never a marker slot, so that every coordinate of
\* the output lies between the least and the greatest input coordinate of
\* its axis; also for an input whose last record is a move and for one in
\* which a line record directly follows a close record.
C27_RoundedReadsOnlyCoordinates ==
    (RoundCall /\ ~tooSmallToRound(op.args[1])) =>
        /\ ~roundedFrom(path.elements, op.args[1], roundedEntry).readBeyond
        /\ ~roundedFrom(path.elements, op.args[1], roundedEntry).markerAsCoordinate
        /\ \A x \in XsOf(result.elements) : path.pathXMin <= x /\ x <= path.pathXMax
        /\ \A y \in YsOf(result.elements) : path.pathYMin <= y /\ y <= path.pathYMax

\* The store e has line records at both base points of a tail of the
\* given width on the edge (horizontal if across) at the given ordinate,
\* the first base point being between lowest and highest.
TailBetween(e, across, edge, tailWidth, lowest, highest) ==
    LET recs == Records(e)
        at(k) == IF across THEN recs[k][2] ELSE recs[k][3]
        onEdge(k) == /\ recs[k][1] = lineMarker
                     /\ edge = (IF across THEN recs[k][3] ELSE recs[k][2])
    IN  \E k, j \in 1..Len(recs) :
            /\ onEdge(k) /\ onEdge(j)
            /\ lowest <= at(k) /\ at(k) <= highest
            /\ at(j) = at(k) + tailWidth

\* C28: in addBubble with w > 1, h > 1, whichSide in 0..3 and arrowPos in
\* [0, 1], both base points of the tail lie on the straight portion of the
\* chosen edge, between the ends of the two corner arcs: for sides 0 and 2,
\* x + cs <= arrowX1 and arrowX1 + tailWidth <= x + w - cs with
\* tailWidth = min (arrowWidth, w - 2 cs); for sides 1 and 3 the same with
\* y and h.  The base points are those of the line records in the store.
C28_TailOnStraightPortion ==
    (op.name = "addBubble" /\ op.args[1] > Unit /\ op.args[2] > Unit) =>
        LET w == op.args[1]
            h == op.args[2]
            cs == jmin(op.args[3], jmin(w, h) \div 2)
            whichSide == op.args[4]
            across == whichSide \in {0, 2}
            length == IF across THEN w ELSE h
            tailWidth == jmin(op.args[6], length - 2 * cs)
            edge == IF whichSide = 0 THEN 0 ELSE IF whichSide = 2 THEN h
                    ELSE IF whichSide = 1 THEN 0 ELSE w
        IN  TailBetween(path.elements, across, edge, tailWidth,
                        cs, length - cs - tailWidth)

\* The navigations (loadRequest messages) among the messages issued.
Navigations(issued) == SelectSeq(issued, LAMBDA m : m.command = "loadRequest")

\* C29: reloadLastURL, called right after goToURL (url, headers, postData)
\* with a non-empty url, issues exactly one navigation, carrying the same
\* url, the same header list and the same POST data as the navigation of
\* that goToURL call, and leaves lastURL empty; a second reloadLastURL
\* issues nothing.
C29_ReloadRepeatsLastNavigation ==
    [][ (op'.name = "reloadLastURL") =>
            /\ (op.name = "goToURL" /\ op.args[1] # <<>>) =>
                   /\ Len(Navigations(web'.issued)) = 1
                   /\ Navigations(web'.issued) = Navigations(web.issued)
                   /\ web'.lastURL = <<>>
            /\ (op.name = "reloadLastURL") => web'.issued = <<>> ]_vars

\* The step is an event of the window of the component.
WindowEvent == op'.name \in {"parentHierarchyChanged", "visibilityChanged"}

\* The messages issued hold a navigation to about:blank.
LoadsBlankPage(issued) ==
    \E k \in 1..Len(issued) :
        issued[k].command = "loadRequest" /\ issued[k].url = aboutBlank

\* The messages issued hold a goBack.
GoesBack(issued) == \E k \in 1..Len(issued) : issued[k].command = "goBack"

\* The step navigates to about:blank because the caller asked for that url,
\* by goToURL or by reloadLastURL after it.
BlankPageRequested ==
    \/ op'.name = "goToURL" /\ op'.args[1] = aboutBlank
    \/ op'.name = "reloadLastURL" /\ web.lastURL = aboutBlank

\* blankPageShown is cleared only by goToURL (reloadLastURL calls it) or by
\* goBack (an event calls it); after an event with the component showing
\* blankPageShown is false, exactly one goBack having been issued if it was
\* true.
BlankPageFlagCleared ==
    /\ (web.blankPageShown /\ ~web'.blankPageShown) =>
           \/ op'.name \in {"goToURL", "reloadLastURL", "goBack"}
           \/ WindowEvent /\ GoesBack(web'.issued)
    /\ (WindowEvent /\ web'.showing) =>
           /\ ~web'.blankPageShown
           /\ web.blankPageShown =>
                  web'.issued = <<Message("goBack", <<>>, <<>>, <<>>)>>

\* The blank page is loaded only while the component is hidden and has to
\* unload its page, and blankPageShown was false and is now true.
WhileHiddenOnly ==
    /\ ~web'.showing
    /\ web'.unloadPageWhenBrowserIsHidden
    /\ ~web.blankPageShown
    /\ web'.blankPageShown

\* C30 as stated: under any sequence of events and calls, a navigation to
\* about:blank is issued only while the component is not showing,
\* unloadPageWhenBrowserIsHidden is true and blankPageShown is false, and it
\* sets blankPageShown; none is issued again until goToURL or goBack has
\* cleared blankPageShown; after every event processed while the component
\* is showing, blankPageShown is false, having issued exactly one goBack if
\* it was true.
C30_BlankPageOnlyWhileHidden ==
    [][ /\ LoadsBlankPage(web'.issued) => WhileHiddenOnly
        /\ BlankPageFlagCleared ]_vars

\* C30 amended: the same of every navigation to about:blank that the caller
\* did not ask for by url.
C30_ForcedBlankPageOnlyWhileHidden ==
    [][ /\ (LoadsBlankPage(web'.issued) /\ ~BlankPageRequested) =>
               WindowEvent /\ WhileHiddenOnly
        /\ BlankPageFlagCleared ]_vars

\* An event has sent a hidden component that showed a page to the blank
\* page.
C30_Witness ==
    /\ op.name \in {"parentHierarchyChanged", "visibilityChanged"}
    /\ ~web.showing
    /\ web.lastURL = <<"http://a">>
    /\ web.blankPageShown
    /\ LoadsBlankPage(web.issued)

=============================================================================
